
---- MODULE Spec2Model ----
(***************************************************************************)
(* Static semantics (type inference) of millet's core crate, and the LSP   *)
(* header parser of the ls crate.                                          *)
(*                                                                         *)
(* Every function of statics.rs is an operator computed as the code        *)
(* computes it; a Result<T> is a record with tag "Ok", "Err" or "Panic"    *)
(* (a failed assert!/unwrap).  `get` is the state machine: one action per  *)
(* iteration of its loop over the top-level declarations, one per phase of *)
(* State::solve, one for the final normalisation and assertion.            *)
(***************************************************************************)
EXTENDS Integers, Sequences, FiniteSets, TLC

(* ------------------------------------------------------------------------ *)
(* Bounds of the model                                                      *)
(* ------------------------------------------------------------------------ *)

\* longest input program (number of top-level declarations)
MaxDecs == 2

\* longest input program of the overloaded-operator specification
MaxOverloadDecs == 1

\* number of unify calls made in a row by the unifier specification
MaxUnify == 2

\* distance between the source locations of two consecutive top-level
\* declarations (every node of a declaration has a location inside its stride)
LocStride == 100

VARIABLES
  top_decs,   \* the input of get: the descriptors of the top-level declarations
  next_dec,   \* the position of get's loop in top_decs
  bs,         \* the Basis
  st,         \* the State
  pc,         \* the position of get
  result,     \* what get (or the function under test) returned
  hash_rev    \* the iteration order of this run's hash maps and hash sets

vars == <<top_decs, next_dec, bs, st, pc, result, hash_rev>>

(* ------------------------------------------------------------------------ *)
(* Sequence helpers                                                          *)
(* ------------------------------------------------------------------------ *)

\* `let v = e;` followed by the code K that reads v: e is evaluated once
With(v, K(_)) == K(v)

Rev(s) == [i \in 1..Len(s) |-> s[Len(s) + 1 - i]]

\* the elements of `s`, each kept at its first occurrence only
RECURSIVE Dedup(_)
Dedup(s) ==
  IF s = <<>> THEN <<>>
  ELSE With(Dedup(SubSeq(s, 1, Len(s) - 1)), LAMBDA init :
           With(s[Len(s)], LAMBDA x :
       IF \E i \in 1..Len(init) : init[i] = x THEN init ELSE Append(init, x)))

(* ------------------------------------------------------------------------ *)
(* Results                                                                   *)
(* ------------------------------------------------------------------------ *)

StaticsError(loc, kind, args) == [loc |-> loc, kind |-> kind, args |-> args]

\* equality of two located errors (the payload is compared only between errors
\* of the same kind)
SameError(e1, e2) == e1.kind = e2.kind /\ e1.loc = e2.loc /\ e1.args = e2.args

(* ------------------------------------------------------------------------ *)
(* Types                                                                     *)
(* ------------------------------------------------------------------------ *)

TyVar(id, equality) == [id |-> id, equality |-> equality]

\* Option<Located<usize>>
NoId == [some |-> FALSE, loc |-> 0, val |-> 0]
SomeId(loc, n) == [some |-> TRUE, loc |-> loc, val |-> n]

Sym(name, id) == [name |-> name, id |-> id]
SymBase(name) == Sym(name, NoId)

LabNum(n) == [l |-> "Num", n |-> n]
LabVid(v) == [l |-> "Vid", v |-> v]

Var(tv) == [k |-> "Var", tv |-> tv]
Record(rows) == [k |-> "Record", rows |-> rows]
Arrow(arg, res) == [k |-> "Arrow", arg |-> arg, res |-> res]
Ctor(args, sym) == [k |-> "Ctor", args |-> args, sym |-> sym]
Row(lab, ty) == [lab |-> lab, ty |-> ty]

TyBase(name) == Ctor(<<>>, SymBase(name))
TyList(elem) == Ctor(<<elem>>, SymBase("list"))
TyRef(elem) == Ctor(<<elem>>, SymBase("ref"))
TyUnit == Record(<<>>)

RECURSIVE ty_names(_)
ty_names(ty) ==
  CASE ty.k = "Var" -> {}
    [] ty.k = "Record" -> UNION {ty_names(ty.rows[i].ty) : i \in 1..Len(ty.rows)}
    [] ty.k = "Arrow" -> ty_names(ty.arg) \cup ty_names(ty.res)
    [] ty.k = "Ctor" ->
         {ty.sym.name} \cup UNION {ty_names(ty.args[i]) : i \in 1..Len(ty.args)}

\* Substitutable::apply for Ty; a Subst is a function from TyVar to Ty
RECURSIVE ty_apply(_, _)
ty_apply(ty, subst) ==
  CASE ty.k = "Var" -> IF ty.tv \in DOMAIN subst THEN subst[ty.tv] ELSE ty
    [] ty.k = "Record" ->
         Record([i \in 1..Len(ty.rows) |->
                   Row(ty.rows[i].lab, ty_apply(ty.rows[i].ty, subst))])
    [] ty.k = "Arrow" -> Arrow(ty_apply(ty.arg, subst), ty_apply(ty.res, subst))
    [] ty.k = "Ctor" ->
         Ctor([i \in 1..Len(ty.args) |-> ty_apply(ty.args[i], subst)], ty.sym)

RECURSIVE ty_free_ty_vars(_)
ty_free_ty_vars(ty) ==
  CASE ty.k = "Var" -> {ty.tv}
    [] ty.k = "Record" ->
         UNION {ty_free_ty_vars(ty.rows[i].ty) : i \in 1..Len(ty.rows)}
    [] ty.k = "Arrow" -> ty_free_ty_vars(ty.arg) \cup ty_free_ty_vars(ty.res)
    [] ty.k = "Ctor" ->
         UNION {ty_free_ty_vars(ty.args[i]) : i \in 1..Len(ty.args)}

(* ------------------------------------------------------------------------ *)
(* Substitutions                                                             *)
(* ------------------------------------------------------------------------ *)

EmptySubst == [tv \in {} |-> Var(tv)]

\* hashmap![tv => ty]
SingleSubst(tv, ty) == [x \in {tv} |-> ty]

\* HashMap::insert / HashMap::remove
MapPut(m, key, val) == [x \in DOMAIN m \cup {key} |-> IF x = key THEN val ELSE m[x]]
MapDel(m, key) == [x \in DOMAIN m \ {key} |-> m[x]]

\* Subst::insert without the rewriting of the ranges
SubstInsertNoRewrite(subst, tv, ty) ==
  [panic |-> tv \in DOMAIN subst, inner |-> MapPut(subst, tv, ty)]

\* Subst::insert: rewrite every range by {tv |-> ty}, then insert; the assert!
\* fails when tv already has a binding
SubstInsert(subst, tv, ty) ==
  With([x \in DOMAIN subst |-> ty_apply(subst[x], SingleSubst(tv, ty))], LAMBDA rewritten :
  [panic |-> tv \in DOMAIN subst, inner |-> MapPut(rewritten, tv, ty)])

(* ------------------------------------------------------------------------ *)
(* Unifier                                                                   *)
(* ------------------------------------------------------------------------ *)

UOk(subst) == [tag |-> "Ok", subst |-> subst]
UErr(subst, err) == [tag |-> "Err", subst |-> subst, err |-> err]
UPanic(subst, loc, what) ==
  [tag |-> "Panic", subst |-> subst, err |-> StaticsError(loc, what, <<>>)]

\* the order in which a hash map or hash set built from the sequence `keys`
\* is iterated: one of two orders, fixed for the run
HashIter(keys) == IF hash_rev THEN Rev(Dedup(keys)) ELSE Dedup(keys)

\* rows.into_iter().collect::<HashMap<_, _>>(): a later row replaces an earlier
RowsHas(rows, lab) == \E i \in 1..Len(rows) : rows[i].lab = lab
RowsGet(rows, lab) ==
  With(CHOOSE i \in 1..Len(rows) :
                /\ rows[i].lab = lab
                /\ \A j \in (i + 1)..Len(rows) : rows[j].lab # lab, LAMBDA last :
  rows[last].ty)

\* bind without the occurs check
bind_no_occurs_check(subst, loc, tv, ty) ==
  IF ty.k = "Var" /\ ty.tv = tv THEN UOk(subst)
  ELSE With(SubstInsert(subst, tv, ty), LAMBDA ins :
       IF ins.panic THEN UPanic(ins.inner, loc, "Subst::insert")
          ELSE UOk(ins.inner))

bind(subst, loc, tv, ty) ==
  IF ty.k = "Var" /\ ty.tv = tv THEN UOk(subst)
  ELSE IF tv \in ty_free_ty_vars(ty)
    THEN UErr(subst, StaticsError(loc, "Circularity", <<tv, ty>>))
  ELSE With(SubstInsert(subst, tv, ty), LAMBDA ins :
       IF ins.panic THEN UPanic(ins.inner, loc, "Subst::insert")
          ELSE UOk(ins.inner))

RECURSIVE unify(_, _, _, _)
RECURSIVE unify_rows(_, _, _, _, _)
RECURSIVE unify_args(_, _, _, _)

\* the Record case of unify returning after the first key of the iteration
unify_rows_first_key(subst, loc, keys, rows_l, rows_r) ==
  IF keys = <<>> THEN UOk(subst)
  ELSE With(Head(keys), LAMBDA k :
       IF RowsHas(rows_l, k) /\ RowsHas(rows_r, k)
          THEN unify(subst, loc, RowsGet(rows_l, k), RowsGet(rows_r, k))
          ELSE UErr(subst, StaticsError(loc, "MissingLabel", <<k>>)))

\* the loop `for k in keys` of the Record case
unify_rows(subst, loc, keys, rows_l, rows_r) ==
  IF keys = <<>> THEN UOk(subst)
  ELSE With(Head(keys), LAMBDA k :
       IF RowsHas(rows_l, k) /\ RowsHas(rows_r, k)
          THEN With(unify(subst, loc, RowsGet(rows_l, k), RowsGet(rows_r, k)), LAMBDA r :
               IF r.tag # "Ok" THEN r
                  ELSE unify_rows(r.subst, loc, Tail(keys), rows_l, rows_r))
          ELSE UErr(subst, StaticsError(loc, "MissingLabel", <<k>>)))

\* the loop over args_l.into_iter().zip(args_r) of the Ctor case
unify_args(subst, loc, args_l, args_r) ==
  IF args_l = <<>> \/ args_r = <<>> THEN UOk(subst)
  ELSE With(unify(subst, loc, Head(args_l), Head(args_r)), LAMBDA r :
       IF r.tag # "Ok" THEN r
          ELSE unify_args(r.subst, loc, Tail(args_l), Tail(args_r)))

\* unify without `lhs.apply(&subst); rhs.apply(&subst);`
unify_no_apply(subst, loc, lhs0, rhs0) ==
  With(lhs0, LAMBDA lhs :
      With(rhs0, LAMBDA rhs :
  CASE lhs.k = "Var" -> bind(subst, loc, lhs.tv, rhs)
       [] lhs.k # "Var" /\ rhs.k = "Var" -> bind(subst, loc, rhs.tv, lhs)
       [] lhs.k = "Record" /\ rhs.k = "Record" ->
            With(HashIter([i \in 1..Len(lhs.rows) |-> lhs.rows[i].lab]
                                 \o [i \in 1..Len(rhs.rows) |-> rhs.rows[i].lab]), LAMBDA keys :
            unify_rows(subst, loc, keys, lhs.rows, rhs.rows))
       [] lhs.k = "Arrow" /\ rhs.k = "Arrow" ->
            With(unify(subst, loc, lhs.arg, rhs.arg), LAMBDA r :
            IF r.tag # "Ok" THEN r ELSE unify(r.subst, loc, lhs.res, rhs.res))
       [] lhs.k = "Ctor" /\ rhs.k = "Ctor" ->
            IF lhs.sym # rhs.sym
            THEN UErr(subst, StaticsError(loc, "HeadMismatch", <<lhs, rhs>>))
            ELSE IF Len(lhs.args) # Len(rhs.args)
            THEN UPanic(subst, loc, "mismatched Ctor args len")
            ELSE unify_args(subst, loc, lhs.args, rhs.args)
       [] OTHER -> UErr(subst, StaticsError(loc, "HeadMismatch", <<lhs, rhs>>))))

\* unify without the arm for a variable on the right: a variable is bound
\* only when it is the left operand
unify_lhs_var_only(subst, loc, lhs0, rhs0) ==
  With(ty_apply(lhs0, subst), LAMBDA lhs :
      With(ty_apply(rhs0, subst), LAMBDA rhs :
  CASE lhs.k = "Var" -> bind(subst, loc, lhs.tv, rhs)
       [] lhs.k = "Record" /\ rhs.k = "Record" ->
            With(HashIter([i \in 1..Len(lhs.rows) |-> lhs.rows[i].lab]
                                 \o [i \in 1..Len(rhs.rows) |-> rhs.rows[i].lab]), LAMBDA keys :
            unify_rows(subst, loc, keys, lhs.rows, rhs.rows))
       [] lhs.k = "Arrow" /\ rhs.k = "Arrow" ->
            With(unify(subst, loc, lhs.arg, rhs.arg), LAMBDA r :
            IF r.tag # "Ok" THEN r ELSE unify(r.subst, loc, lhs.res, rhs.res))
       [] lhs.k = "Ctor" /\ rhs.k = "Ctor" ->
            IF lhs.sym # rhs.sym
            THEN UErr(subst, StaticsError(loc, "HeadMismatch", <<lhs, rhs>>))
            ELSE IF Len(lhs.args) # Len(rhs.args)
            THEN UPanic(subst, loc, "mismatched Ctor args len")
            ELSE unify_args(subst, loc, lhs.args, rhs.args)
       [] OTHER -> UErr(subst, StaticsError(loc, "HeadMismatch", <<lhs, rhs>>))))

unify(subst, loc, lhs0, rhs0) ==
  With(ty_apply(lhs0, subst), LAMBDA lhs :
      With(ty_apply(rhs0, subst), LAMBDA rhs :
  CASE lhs.k = "Var" -> bind(subst, loc, lhs.tv, rhs)
       [] lhs.k # "Var" /\ rhs.k = "Var" -> bind(subst, loc, rhs.tv, lhs)
       [] lhs.k = "Record" /\ rhs.k = "Record" ->
            With(HashIter([i \in 1..Len(lhs.rows) |-> lhs.rows[i].lab]
                                 \o [i \in 1..Len(rhs.rows) |-> rhs.rows[i].lab]), LAMBDA keys :
            unify_rows(subst, loc, keys, lhs.rows, rhs.rows))
       [] lhs.k = "Arrow" /\ rhs.k = "Arrow" ->
            With(unify(subst, loc, lhs.arg, rhs.arg), LAMBDA r :
            IF r.tag # "Ok" THEN r ELSE unify(r.subst, loc, lhs.res, rhs.res))
       [] lhs.k = "Ctor" /\ rhs.k = "Ctor" ->
            IF lhs.sym # rhs.sym
            THEN UErr(subst, StaticsError(loc, "HeadMismatch", <<lhs, rhs>>))
            ELSE IF Len(lhs.args) # Len(rhs.args)
            THEN UPanic(subst, loc, "mismatched Ctor args len")
            ELSE unify_args(subst, loc, lhs.args, rhs.args)
       [] OTHER -> UErr(subst, StaticsError(loc, "HeadMismatch", <<lhs, rhs>>))))

(* ------------------------------------------------------------------------ *)
(* Type schemes and environments                                             *)
(* ------------------------------------------------------------------------ *)

\* the elements of a set in the order a hash map holding them as keys is
\* iterated in this run
RECURSIVE SetToSeq(_)
SetToSeq(S) ==
  IF S = {} THEN <<>>
  ELSE With(CHOOSE y \in S : TRUE, LAMBDA x : <<x>> \o SetToSeq(S \ {x}))

KeysIter(S) == IF hash_rev THEN Rev(SetToSeq(S)) ELSE SetToSeq(S)

NoOverload == [some |-> FALSE, names |-> <<>>]
SomeOverload(names) == [some |-> TRUE, names |-> names]

TyScheme(ty_vars, ty, overload) ==
  [ty_vars |-> ty_vars, ty |-> ty, overload |-> overload]

TySchemeMono(ty) == TyScheme(<<>>, ty, NoOverload)

\* Substitutable for TyScheme: the bound variables are masked
scheme_apply(ts, subst) ==
  With({ts.ty_vars[i] : i \in 1..Len(ts.ty_vars)}, LAMBDA bound :
      With([x \in DOMAIN subst \ bound |-> subst[x]], LAMBDA masked :
  TyScheme(ts.ty_vars, ty_apply(ts.ty, masked), ts.overload)))

scheme_free_ty_vars(ts) ==
  ty_free_ty_vars(ts.ty) \ {ts.ty_vars[i] : i \in 1..Len(ts.ty_vars)}

TyInfo(ty_fcn, val_env) == [ty_fcn |-> ty_fcn, val_env |-> val_env]

ValInfo(ty_scheme, id_status) == [ty_scheme |-> ty_scheme, id_status |-> id_status]

ValInfoCtor(ty_scheme) == ValInfo(ty_scheme, "Ctor")

ValInfoExn == ValInfo(TySchemeMono(TyBase("exn")), "Exn")

\* ValInfo::val: the status it stores is IdStatus::Ctor
ValInfoVal(ty_scheme) == ValInfo(ty_scheme, "Ctor")

EmptyMap == [x \in {} |-> x]

Env(str_env, ty_env, val_env) ==
  [str_env |-> str_env, ty_env |-> ty_env, val_env |-> val_env]

EnvDefault == Env(EmptyMap, EmptyMap, EmptyMap)
EnvFromValEnv(val_env) == Env(EmptyMap, EmptyMap, val_env)
EnvFromTyEnv(ty_env) == Env(EmptyMap, ty_env, EmptyMap)

\* `other` overwrites `m`
MapExtend(m, other) ==
  [x \in DOMAIN m \cup DOMAIN other |-> IF x \in DOMAIN other THEN other[x] ELSE m[x]]

env_extend(env, other) ==
  Env(MapExtend(env.str_env, other.str_env),
      MapExtend(env.ty_env, other.ty_env),
      MapExtend(env.val_env, other.val_env))

RECURSIVE env_ty_names(_)
env_ty_names(env) ==
  UNION {env_ty_names(env.str_env[x]) : x \in DOMAIN env.str_env}
    \cup DOMAIN env.ty_env

ty_env_apply(ty_env, subst) ==
  [x \in DOMAIN ty_env |->
     TyInfo(scheme_apply(ty_env[x].ty_fcn, subst), ty_env[x].val_env)]

ty_env_free_ty_vars(ty_env) ==
  UNION {scheme_free_ty_vars(ty_env[x].ty_fcn) : x \in DOMAIN ty_env}

RECURSIVE env_apply(_, _)
env_apply(env, subst) ==
  Env([x \in DOMAIN env.str_env |-> env_apply(env.str_env[x], subst)],
      ty_env_apply(env.ty_env, subst),
      [x \in DOMAIN env.val_env |->
         ValInfo(scheme_apply(env.val_env[x].ty_scheme, subst),
                 env.val_env[x].id_status)])

RECURSIVE env_free_ty_vars(_)
env_free_ty_vars(env) ==
  UNION {env_free_ty_vars(env.str_env[x]) : x \in DOMAIN env.str_env}
    \cup ty_env_free_ty_vars(env.ty_env)
    \cup UNION {scheme_free_ty_vars(env.val_env[x].ty_scheme) : x \in DOMAIN env.val_env}

Cx(names, ty_vars, env) == [ty_names |-> names, ty_vars |-> ty_vars, env |-> env]

o_plus(cx, env) ==
  Cx(cx.ty_names \cup env_ty_names(env), cx.ty_vars, env_extend(cx.env, env))

Basis(names, fun_env, sig_env, env) ==
  [ty_names |-> names, fun_env |-> fun_env, sig_env |-> sig_env, env |-> env]

basis_apply(b, subst) ==
  Basis(b.ty_names,
        [x \in DOMAIN b.fun_env |->
           [ty_names |-> b.fun_env[x].ty_names,
            env |-> env_apply(b.fun_env[x].env, subst),
            sig |-> [ty_names |-> b.fun_env[x].sig.ty_names,
                     env |-> env_apply(b.fun_env[x].sig.env, subst)]]],
        [x \in DOMAIN b.sig_env |->
           [ty_names |-> b.sig_env[x].ty_names,
            env |-> env_apply(b.sig_env[x].env, subst)]],
        env_apply(b.env, subst))

basis_free_ty_vars(b) ==
  UNION {env_free_ty_vars(b.fun_env[x].env) \cup env_free_ty_vars(b.fun_env[x].sig.env)
           : x \in DOMAIN b.fun_env}
    \cup UNION {env_free_ty_vars(b.sig_env[x].env) : x \in DOMAIN b.sig_env}
    \cup env_free_ty_vars(b.env)

(* ------------------------------------------------------------------------ *)
(* State                                                                     *)
(* ------------------------------------------------------------------------ *)

State(next_ty_var, next_sym, overload, ty_name, subst) ==
  [next_ty_var |-> next_ty_var, next_sym |-> next_sym, overload |-> overload,
   ty_name |-> ty_name, subst |-> subst]

StateDefault == State(0, 0, <<>>, <<>>, EmptySubst)

\* State::new_ty_var: the variable made, and the state after
new_ty_var(s, equality) ==
  [tv |-> TyVar(s.next_ty_var, equality),
   st |-> [s EXCEPT !.next_ty_var = s.next_ty_var + 1]]

\* new_sym with the counter left as it was
new_sym_same_origin(s, name) ==
  [sym |-> Sym(name.val, SomeId(name.loc, s.next_sym)), st |-> s]

\* State::new_sym, for the located name `name`
new_sym(s, name) ==
  [sym |-> Sym(name.val, SomeId(name.loc, s.next_sym)),
   st |-> [s EXCEPT !.next_sym = s.next_sym + 1]]

\* the loop of instantiate over the bound variables of a scheme that is not
\* overloaded
RECURSIVE instantiate_vars(_, _, _)
instantiate_vars(s, ty_vars, subst) ==
  IF ty_vars = <<>> THEN [st |-> s, subst |-> subst]
  ELSE With(new_ty_var(s, Head(ty_vars).equality), LAMBDA n :
       instantiate_vars(n.st, Tail(ty_vars), MapPut(subst, Head(ty_vars), Var(n.tv))))

instantiate(s, ty_scheme, loc) ==
  IF ~ty_scheme.overload.some
  THEN With(instantiate_vars(s, ty_scheme.ty_vars, EmptySubst), LAMBDA r :
       [tag |-> "Ok", st |-> r.st, ty |-> ty_apply(ty_scheme.ty, r.subst)])
  ELSE IF \/ Len(ty_scheme.ty_vars) # 1
          \/ ty_scheme.overload.names = <<>>
          \/ ty_scheme.ty_vars[1].equality
  THEN [tag |-> "Panic", err |-> StaticsError(loc, "instantiate", <<>>)]
  ELSE With(new_ty_var(s, FALSE), LAMBDA n :
           With(SingleSubst(ty_scheme.ty_vars[1], Var(n.tv)), LAMBDA subst :
           With([loc |-> loc, tv |-> n.tv, overloads |-> ty_scheme.overload.names], LAMBDA ob :
       [tag |-> "Ok",
           st |-> [n.st EXCEPT !.overload = Append(n.st.overload, ob)],
           ty |-> ty_apply(ty_scheme.ty, subst)])))

generalize(ty_env, ty) ==
  TyScheme(KeysIter(ty_free_ty_vars(ty) \ ty_env_free_ty_vars(ty_env)), ty, NoOverload)

(* ------------------------------------------------------------------------ *)
(* Standard basis                                                            *)
(* ------------------------------------------------------------------------ *)

Pair(a, b) == Record(<<Row(LabNum(1), a), Row(LabNum(2), b)>>)

prim_ty_info(ty) == TyInfo(TySchemeMono(ty), EmptyMap)

bool_val_env ==
  [x \in {"true", "false"} |-> ValInfoCtor(TySchemeMono(TyBase("bool")))]

\* list_val_env, ref_val_env, overloaded, overloaded_cmp: `s` is the state the
\* function is called in; the function makes `s.next_ty_var` and the ones after
list_val_env(s) ==
  With(TyVar(s.next_ty_var, FALSE), LAMBDA a :
      With(TyVar(s.next_ty_var + 1, FALSE), LAMBDA b :
  ("nil" :> ValInfoCtor(TyScheme(<<a>>, TyList(Var(a)), NoOverload)))
     @@ ("::" :> ValInfoCtor(TyScheme(<<b>>,
                   Arrow(Pair(Var(b), TyList(Var(b))), TyList(Var(b))), NoOverload)))))

ref_val_env(s) ==
  With(TyVar(s.next_ty_var, FALSE), LAMBDA a :
  "ref" :> ValInfoCtor(TyScheme(<<a>>, Arrow(Var(a), TyRef(Var(a))), NoOverload)))

order_val_env ==
  [x \in {"LESS", "EQUAL", "GREATER"} |-> ValInfoCtor(TySchemeMono(TyBase("order")))]

overloaded(s, overloads) ==
  With(TyVar(s.next_ty_var, FALSE), LAMBDA a :
  ValInfoVal(TyScheme(<<a>>, Arrow(Pair(Var(a), Var(a)), Var(a)),
                         SomeOverload(overloads))))

overloaded_cmp(s) ==
  With(TyVar(s.next_ty_var, FALSE), LAMBDA a :
  ValInfoVal(TyScheme(<<a>>, Arrow(Pair(Var(a), Var(a)), TyBase("bool")),
                         SomeOverload(<<"int", "word", "real", "string", "char">>))))

\* the candidates of `div`, `mod` and `*` with word left out
word_int_without_word == <<"int">>

real_int == <<"int", "real">>
word_int == <<"int", "word">>
num == <<"int", "word", "real">>

\* the state after `n` calls of new_ty_var on the default state
StAfter(n) == [StateDefault EXCEPT !.next_ty_var = n]

\* std_lib: the type variables are numbered in the order the struct expression
\* makes them (list 0,1,2; ref 3,4; the value environment 5..21)
std_lib ==
  LET ty_env ==
        ("unit" :> prim_ty_info(TyUnit))
        @@ ("bool" :> TyInfo(TySchemeMono(TyBase("bool")), bool_val_env))
        @@ ("int" :> prim_ty_info(TyBase("int")))
        @@ ("real" :> prim_ty_info(TyBase("real")))
        @@ ("string" :> prim_ty_info(TyBase("string")))
        @@ ("char" :> prim_ty_info(TyBase("char")))
        @@ ("word" :> prim_ty_info(TyBase("word")))
        @@ ("list" :> TyInfo(TyScheme(<<TyVar(0, FALSE)>>, TyList(Var(TyVar(0, FALSE))),
                                      NoOverload),
                             list_val_env(StAfter(1))))
        @@ ("ref" :> TyInfo(TyScheme(<<TyVar(3, FALSE)>>, TyRef(Var(TyVar(3, FALSE))),
                                     NoOverload),
                            ref_val_env(StAfter(4))))
        @@ ("exn" :> prim_ty_info(TyBase("exn")))
        @@ ("order" :> TyInfo(TySchemeMono(TyBase("order")), order_val_env))
      eq == TyVar(8, TRUE)
      asg == TyVar(9, FALSE)
      others ==
        ("=" :> ValInfoVal(TyScheme(<<eq>>, Arrow(Pair(Var(eq), Var(eq)), TyBase("bool")),
                                    NoOverload)))
        @@ (":=" :> ValInfoVal(TyScheme(<<asg>>,
                       Arrow(Pair(Ctor(<<Var(asg)>>, SymBase("ref")), Var(asg)), TyUnit),
                       NoOverload)))
        @@ ("Match" :> ValInfoExn)
        @@ ("Bind" :> ValInfoExn)
        @@ ("abs" :> overloaded(StAfter(10), real_int))
        @@ ("~" :> overloaded(StAfter(11), real_int))
        @@ ("div" :> overloaded(StAfter(12), word_int))
        @@ ("mod" :> overloaded(StAfter(13), word_int))
        @@ ("*" :> overloaded(StAfter(14), word_int))
        @@ ("/" :> overloaded(StAfter(15), <<"real">>))
        @@ ("+" :> overloaded(StAfter(16), num))
        @@ ("-" :> overloaded(StAfter(17), num))
        @@ ("<" :> overloaded_cmp(StAfter(18)))
        @@ (">" :> overloaded_cmp(StAfter(19)))
        @@ ("<=" :> overloaded_cmp(StAfter(20)))
        @@ (">=" :> overloaded_cmp(StAfter(21)))
      \* .chain(..).collect(): a later entry replaces an earlier one
      val_env ==
        MapExtend(MapExtend(MapExtend(MapExtend(bool_val_env, list_val_env(StAfter(5))),
                                      ref_val_env(StAfter(7))),
                            order_val_env),
                  others)
  IN [bs |-> Basis({"bool", "int", "real", "string", "char", "word", "list", "ref",
                    "exn", "order"},
                   EmptyMap, EmptyMap, Env(EmptyMap, ty_env, val_env)),
      st |-> StAfter(22)]

(* ------------------------------------------------------------------------ *)
(* Abstract syntax (crate::ast, as statics.rs reads it)                      *)
(* ------------------------------------------------------------------------ *)

Located(val, loc) == [val |-> val, loc |-> loc]

\* a long identifier; `loc` is what Long::loc() returns
Long(structures, last, loc) == [structures |-> structures, last |-> last, loc |-> loc]

\* an unqualified identifier at `loc`
Vid(name, loc) == Long(<<>>, Located(name, loc), loc)

\* expressions
ELit(n, loc) == [n |-> n, loc |-> loc]
ELongVid(vid, loc) == [n |-> "LongVid", loc |-> loc, vid |-> vid]
ERecord(rows, loc) == [n |-> "Record", loc |-> loc, rows |-> rows]
ExpRow(lab, exp) == [lab |-> lab, exp |-> exp]
ETuple(exps, loc) == [n |-> "Tuple", loc |-> loc, exps |-> exps]
EList(exps, loc) == [n |-> "List", loc |-> loc, exps |-> exps]
ESequence(exps, loc) == [n |-> "Sequence", loc |-> loc, exps |-> exps]
ELet(dec, exps, loc) == [n |-> "Let", loc |-> loc, dec |-> dec, exps |-> exps]
EApp(func, arg, loc) == [n |-> "App", loc |-> loc, func |-> func, arg |-> arg]
EInfixApp(lhs, func, rhs, loc) ==
  [n |-> "InfixApp", loc |-> loc, lhs |-> lhs, func |-> func, rhs |-> rhs]
ETyped(exp, ty, loc) == [n |-> "Typed", loc |-> loc, exp |-> exp, ty |-> ty]
EAndalso(lhs, rhs, loc) == [n |-> "Andalso", loc |-> loc, lhs |-> lhs, rhs |-> rhs]
EOrelse(lhs, rhs, loc) == [n |-> "Orelse", loc |-> loc, lhs |-> lhs, rhs |-> rhs]
EHandle(head, cases, loc) == [n |-> "Handle", loc |-> loc, head |-> head, cases |-> cases]
ERaise(exp, loc) == [n |-> "Raise", loc |-> loc, exp |-> exp]
EIf(cond, then_e, else_e, loc) ==
  [n |-> "If", loc |-> loc, cond |-> cond, then_e |-> then_e, else_e |-> else_e]
ECase(head, cases, loc) == [n |-> "Case", loc |-> loc, head |-> head, cases |-> cases]
EFn(cases, loc) == [n |-> "Fn", loc |-> loc, cases |-> cases]
Arm(pat, exp) == [pat |-> pat, exp |-> exp]

\* patterns
PLit(n, loc) == [n |-> n, loc |-> loc]
PLongVid(vid, loc) == [n |-> "LongVid", loc |-> loc, vid |-> vid]
PRecord(rows, rest, loc) == [n |-> "Record", loc |-> loc, rows |-> rows, rest |-> rest]
PatRow(lab, pat) == [lab |-> lab, pat |-> pat]
PTuple(pats, loc) == [n |-> "Tuple", loc |-> loc, pats |-> pats]
PList(pats, loc) == [n |-> "List", loc |-> loc, pats |-> pats]
PCtor(vid, arg, loc) == [n |-> "Ctor", loc |-> loc, vid |-> vid, arg |-> arg]
PInfixCtor(lhs, vid, rhs, loc) ==
  [n |-> "InfixCtor", loc |-> loc, lhs |-> lhs, vid |-> vid, rhs |-> rhs]
PTyped(pat, ty, loc) == [n |-> "Typed", loc |-> loc, pat |-> pat, ty |-> ty]
PAs(vid, ty, pat, loc) == [n |-> "As", loc |-> loc, vid |-> vid, ty |-> ty, pat |-> pat]

\* types in the source; Option<T> is a sequence of at most one element
TTyVar(loc) == [n |-> "TyVar", loc |-> loc]
TRecord(rows, loc) == [n |-> "Record", loc |-> loc, rows |-> rows]
TyRow(lab, ty) == [lab |-> lab, ty |-> ty]
TTuple(tys, loc) == [n |-> "Tuple", loc |-> loc, tys |-> tys]
TTyCon(args, name, loc) == [n |-> "TyCon", loc |-> loc, args |-> args, name |-> name]
TArrow(arg, res, loc) == [n |-> "Arrow", loc |-> loc, arg |-> arg, res |-> res]

\* declarations
DVal(ty_vars, val_binds, loc) ==
  [n |-> "Val", loc |-> loc, ty_vars |-> ty_vars, val_binds |-> val_binds]
ValBind(rec, pat, exp) == [rec |-> rec, pat |-> pat, exp |-> exp]
DType(ty_binds, loc) == [n |-> "Type", loc |-> loc, ty_binds |-> ty_binds]
TyBind(ty_vars, ty_con, ty) == [ty_vars |-> ty_vars, ty_con |-> ty_con, ty |-> ty]
DDatatype(dat_binds, ty_binds, loc) ==
  [n |-> "Datatype", loc |-> loc, dat_binds |-> dat_binds, ty_binds |-> ty_binds]
DatBind(ty_vars, ty_con, cons) == [ty_vars |-> ty_vars, ty_con |-> ty_con, cons |-> cons]
ConBind(vid, ty) == [vid |-> vid, ty |-> ty]
DSeq(decs, loc) == [n |-> "Seq", loc |-> loc, decs |-> decs]
DOther(n, loc) == [n |-> n, loc |-> loc]

\* top-level declarations
TopStrDec(dec, loc) == [n |-> "Dec", loc |-> loc, dec |-> dec]
TopOther(n, loc) == [n |-> n, loc |-> loc]

(* ------------------------------------------------------------------------ *)
(* Inferencer: results and lookups                                           *)
(* ------------------------------------------------------------------------ *)

Err(loc, kind, args) == [tag |-> "Err", err |-> StaticsError(loc, kind, args)]
Panic(loc, what) == [tag |-> "Panic", err |-> StaticsError(loc, what, <<>>)]

\* the `?` operator: the failure of `r`, as the result of the caller
Fail(r) == [tag |-> r.tag, err |-> r.err]

OkTy(s, ty) == [tag |-> "Ok", st |-> s, ty |-> ty]
OkPat(s, val_env, ty) == [tag |-> "Ok", st |-> s, val_env |-> val_env, ty |-> ty]
OkEnv(s, env) == [tag |-> "Ok", st |-> s, env |-> env]

\* unify(&mut st.subst, loc, lhs, rhs)
st_unify(s, loc, lhs, rhs) ==
  With(unify(s.subst, loc, lhs, rhs), LAMBDA u :
  IF u.tag = "Ok" THEN [tag |-> "Ok", st |-> [s EXCEPT !.subst = u.subst]]
     ELSE Fail(u))

RECURSIVE get_env_in(_, _)
get_env_in(env, structures) ==
  IF structures = <<>> THEN [tag |-> "Ok", env |-> env]
  ELSE With(Head(structures), LAMBDA s :
       IF s.val \notin DOMAIN env.str_env
          THEN Err(s.loc, "Undefined", <<"structure", s.val>>)
          ELSE get_env_in(env.str_env[s.val], Tail(structures)))

get_env(cx, long) == get_env_in(cx.env, long.structures)

get_val_info(env, name) ==
  IF name.val \notin DOMAIN env.val_env
  THEN Err(name.loc, "Undefined", <<"value", name.val>>)
  ELSE [tag |-> "Ok", val_info |-> env.val_env[name.val]]

tuple_lab(idx) == LabNum(idx + 1)

ForbiddenNames == {"true", "false", "nil", "::", "ref"}

ck_binding(name) ==
  IF name.val \in ForbiddenNames
  THEN Err(name.loc, "ForbiddenBinding", <<name.val>>)
  ELSE [tag |-> "Ok"]

env_ins(map, key, val) ==
  IF key.val \in DOMAIN map THEN Err(key.loc, "Redefined", <<key.val>>)
  ELSE [tag |-> "Ok", map |-> MapPut(map, key.val, val)]

RECURSIVE env_merge_keys(_, _, _, _)
env_merge_keys(lhs, rhs, keys, loc) ==
  IF keys = <<>> THEN [tag |-> "Ok", map |-> lhs]
  ELSE With(env_ins(lhs, Located(Head(keys), loc), rhs[Head(keys)]), LAMBDA r :
       IF r.tag # "Ok" THEN r ELSE env_merge_keys(r.map, rhs, Tail(keys), loc))

env_merge(lhs, rhs, loc) == env_merge_keys(lhs, rhs, KeysIter(DOMAIN rhs), loc)

(* ------------------------------------------------------------------------ *)
(* Inferencer: types in the source                                           *)
(* ------------------------------------------------------------------------ *)

RECURSIVE ck_ty(_, _, _)
RECURSIVE ck_ty_rows(_, _, _, _, _)
RECURSIVE ck_ty_tuple(_, _, _, _, _)
RECURSIVE ck_ty_args(_, _, _, _, _)

\* the loop of AstTy::Record
ck_ty_rows(cx, s, rows, ty_rows, keys) ==
  IF rows = <<>> THEN OkTy(s, Record(ty_rows))
  ELSE With(Head(rows), LAMBDA row :
           With(ck_ty(cx, s, row.ty), LAMBDA r :
       IF r.tag # "Ok" THEN r
          ELSE IF row.lab.val \in keys
          THEN Err(row.lab.loc, "DuplicateLabel", <<row.lab.val>>)
          ELSE ck_ty_rows(cx, r.st, Tail(rows), Append(ty_rows, Row(row.lab.val, r.ty)),
                          keys \cup {row.lab.val})))

\* the loop of AstTy::Tuple
ck_ty_tuple(cx, s, tys, idx, ty_rows) ==
  IF tys = <<>> THEN OkTy(s, Record(ty_rows))
  ELSE With(ck_ty(cx, s, Head(tys)), LAMBDA r :
       IF r.tag # "Ok" THEN r
          ELSE ck_ty_tuple(cx, r.st, Tail(tys), idx + 1,
                           Append(ty_rows, Row(tuple_lab(idx), r.ty))))

\* the loop of AstTy::TyCon over ty_vars.iter().zip(args.iter()); the result
\* carries the substitution built
ck_ty_args(cx, s, ty_vars, args, subst) ==
  IF ty_vars = <<>> \/ args = <<>> THEN [tag |-> "Ok", st |-> s, subst |-> subst]
  ELSE With(ck_ty(cx, s, Head(args)), LAMBDA r :
       IF r.tag # "Ok" THEN r
          ELSE ck_ty_args(cx, r.st, Tail(ty_vars), Tail(args),
                          MapPut(subst, Head(ty_vars), r.ty)))

\* ck_ty without the comparison of the number of arguments
ck_ty_no_arity_check(cx, s, ty) ==
  CASE ty.n = "TyVar" -> Err(ty.loc, "Todo", <<>>)
    [] ty.n = "Record" -> ck_ty_rows(cx, s, ty.rows, <<>>, {})
    [] ty.n = "Tuple" -> ck_ty_tuple(cx, s, ty.tys, 0, <<>>)
    [] ty.n = "TyCon" ->
         With(get_env(cx, ty.name), LAMBDA e :
         IF e.tag # "Ok" THEN e
            ELSE IF ty.name.last.val \notin DOMAIN e.env.ty_env
            THEN Err(ty.name.last.loc, "Undefined", <<"type", ty.name.last.val>>)
            ELSE With(e.env.ty_env[ty.name.last.val].ty_fcn, LAMBDA ty_fcn :
                     With(Len(ty_fcn.ty_vars), LAMBDA want_len :
                 IF FALSE
                    THEN Err(ty.loc, "WrongNumTyArgs", <<want_len, Len(ty.args)>>)
                    ELSE With(ck_ty_args(cx, s, ty_fcn.ty_vars, ty.args, EmptySubst), LAMBDA a :
                         IF a.tag # "Ok" THEN a
                            ELSE OkTy(a.st, ty_apply(ty_fcn.ty, a.subst))))))
    [] ty.n = "Arrow" ->
         With(ck_ty(cx, s, ty.arg), LAMBDA a :
         IF a.tag # "Ok" THEN a
            ELSE With(ck_ty(cx, a.st, ty.res), LAMBDA r :
                 IF r.tag # "Ok" THEN r
                    ELSE OkTy(r.st, Arrow(a.ty, r.ty))))

ck_ty(cx, s, ty) ==
  CASE ty.n = "TyVar" -> Err(ty.loc, "Todo", <<>>)
    [] ty.n = "Record" -> ck_ty_rows(cx, s, ty.rows, <<>>, {})
    [] ty.n = "Tuple" -> ck_ty_tuple(cx, s, ty.tys, 0, <<>>)
    [] ty.n = "TyCon" ->
         With(get_env(cx, ty.name), LAMBDA e :
         IF e.tag # "Ok" THEN e
            ELSE IF ty.name.last.val \notin DOMAIN e.env.ty_env
            THEN Err(ty.name.last.loc, "Undefined", <<"type", ty.name.last.val>>)
            ELSE With(e.env.ty_env[ty.name.last.val].ty_fcn, LAMBDA ty_fcn :
                     With(Len(ty_fcn.ty_vars), LAMBDA want_len :
                 IF want_len # Len(ty.args)
                    THEN Err(ty.loc, "WrongNumTyArgs", <<want_len, Len(ty.args)>>)
                    ELSE With(ck_ty_args(cx, s, ty_fcn.ty_vars, ty.args, EmptySubst), LAMBDA a :
                         IF a.tag # "Ok" THEN a
                            ELSE OkTy(a.st, ty_apply(ty_fcn.ty, a.subst))))))
    [] ty.n = "Arrow" ->
         With(ck_ty(cx, s, ty.arg), LAMBDA a :
         IF a.tag # "Ok" THEN a
            ELSE With(ck_ty(cx, a.st, ty.res), LAMBDA r :
                 IF r.tag # "Ok" THEN r
                    ELSE OkTy(r.st, Arrow(a.ty, r.ty))))

(* ------------------------------------------------------------------------ *)
(* Inferencer: patterns                                                      *)
(* ------------------------------------------------------------------------ *)

PatLitTy(n) ==
  CASE n \in {"DecInt", "HexInt"} -> TyBase("int")
    [] n \in {"DecWord", "HexWord"} -> TyBase("word")
    [] n = "Str" -> TyBase("string")
    [] n = "Char" -> TyBase("char")

RECURSIVE ck_pat(_, _, _)
RECURSIVE ck_pat_rows(_, _, _, _, _, _)
RECURSIVE ck_pat_tuple(_, _, _, _, _, _)
RECURSIVE ck_pat_list(_, _, _, _, _)

\* the loop of Pat::Record
ck_pat_rows(cx, s, rows, ve, ty_rows, keys) ==
  IF rows = <<>> THEN OkPat(s, ve, Record(ty_rows))
  ELSE With(Head(rows), LAMBDA row :
           With(ck_pat(cx, s, row.pat), LAMBDA r :
       IF r.tag # "Ok" THEN r
          ELSE IF row.lab.val \in keys
          THEN Err(row.lab.loc, "DuplicateLabel", <<row.lab.val>>)
          ELSE With(env_merge(ve, r.val_env, row.pat.loc), LAMBDA m :
               IF m.tag # "Ok" THEN m
                  ELSE ck_pat_rows(cx, r.st, Tail(rows), m.map,
                                   Append(ty_rows, Row(row.lab.val, r.ty)),
                                   keys \cup {row.lab.val}))))

\* the loop of Pat::Tuple
ck_pat_tuple(cx, s, pats, idx, ve, ty_rows) ==
  IF pats = <<>> THEN OkPat(s, ve, Record(ty_rows))
  ELSE With(ck_pat(cx, s, Head(pats)), LAMBDA r :
       IF r.tag # "Ok" THEN r
          ELSE With(env_merge(ve, r.val_env, Head(pats).loc), LAMBDA m :
               IF m.tag # "Ok" THEN m
                  ELSE ck_pat_tuple(cx, r.st, Tail(pats), idx + 1, m.map,
                                    Append(ty_rows, Row(tuple_lab(idx), r.ty)))))

\* the loop of Pat::List
ck_pat_list(cx, s, pats, elem, ve) ==
  IF pats = <<>> THEN OkPat(s, ve, TyList(elem))
  ELSE With(ck_pat(cx, s, Head(pats)), LAMBDA r :
       IF r.tag # "Ok" THEN r
          ELSE With(env_merge(ve, r.val_env, Head(pats).loc), LAMBDA m :
               IF m.tag # "Ok" THEN m
                  ELSE With(st_unify(r.st, Head(pats).loc, elem, r.ty), LAMBDA u :
                       IF u.tag # "Ok" THEN u
                          ELSE ck_pat_list(cx, u.st, Tail(pats),
                                           ty_apply(elem, u.st.subst), m.map))))

\* the scheme Pat::LongVid instantiates, if any
pat_long_vid_scheme(cx, vid) ==
  IF vid.structures = <<>> THEN <<>>
  ELSE IF /\ vid.last.val \in DOMAIN cx.env.val_env
          /\ cx.env.val_env[vid.last.val].id_status = "Val"
  THEN <<cx.env.val_env[vid.last.val].ty_scheme>>
  ELSE <<>>

ck_pat(cx, s, pat) ==
  CASE pat.n = "Wildcard" ->
         With(new_ty_var(s, FALSE), LAMBDA n : OkPat(n.st, EmptyMap, Var(n.tv)))
    [] pat.n \in {"DecInt", "HexInt", "DecWord", "HexWord", "Str", "Char"} ->
         OkPat(s, EmptyMap, PatLitTy(pat.n))
    [] pat.n = "LongVid" ->
         With(pat_long_vid_scheme(cx, pat.vid), LAMBDA ty_scheme :
         IF ty_scheme = <<>>
            THEN With(new_ty_var(s, FALSE), LAMBDA n :
                     With(ValInfoVal(TySchemeMono(Var(n.tv))), LAMBDA val_info :
                 OkPat(n.st, pat.vid.last.val :> val_info, Var(n.tv))))
            ELSE With(instantiate(s, ty_scheme[1], pat.loc), LAMBDA i :
                 IF i.tag # "Ok" THEN i ELSE OkPat(i.st, EmptyMap, i.ty)))
    [] pat.n = "Record" ->
         IF pat.rest # <<>> THEN Err(pat.rest[1], "Todo", <<>>)
         ELSE ck_pat_rows(cx, s, pat.rows, EmptyMap, <<>>, {})
    [] pat.n = "Tuple" -> ck_pat_tuple(cx, s, pat.pats, 0, EmptyMap, <<>>)
    [] pat.n = "List" ->
         With(new_ty_var(s, FALSE), LAMBDA n :
         ck_pat_list(cx, n.st, pat.pats, Var(n.tv), EmptyMap))
    [] pat.n = "Ctor" ->
         With(get_env(cx, pat.vid), LAMBDA e :
         IF e.tag # "Ok" THEN e
            ELSE With(get_val_info(e.env, pat.vid.last), LAMBDA v :
            IF v.tag # "Ok" THEN v
            ELSE IF v.val_info.id_status = "Val" THEN Err(pat.vid.loc, "ValAsPat", <<>>)
            ELSE With(ck_pat(cx, s, pat.arg), LAMBDA a :
            IF a.tag # "Ok" THEN a
            ELSE With(instantiate(a.st, v.val_info.ty_scheme, pat.loc), LAMBDA i :
            IF i.tag # "Ok" THEN i
            ELSE With(new_ty_var(i.st, FALSE), LAMBDA n :
                     With(st_unify(n.st, pat.loc, i.ty, Arrow(a.ty, Var(n.tv))), LAMBDA u :
            IF u.tag # "Ok" THEN u
            ELSE OkPat(u.st, a.val_env, ty_apply(Var(n.tv), u.st.subst))))))))
    [] pat.n = "InfixCtor" ->
         With(get_val_info(cx.env, pat.vid), LAMBDA v :
         IF v.tag # "Ok" THEN v
            ELSE IF v.val_info.id_status = "Val" THEN Err(pat.vid.loc, "ValAsPat", <<>>)
            ELSE With(instantiate(s, v.val_info.ty_scheme, pat.loc), LAMBDA i :
            IF i.tag # "Ok" THEN i
            ELSE With(ck_pat(cx, i.st, pat.lhs), LAMBDA l :
            IF l.tag # "Ok" THEN l
            ELSE With(ck_pat(cx, l.st, pat.rhs), LAMBDA r :
            IF r.tag # "Ok" THEN r
            ELSE With(env_merge(l.val_env, r.val_env, pat.loc), LAMBDA m :
            IF m.tag # "Ok" THEN m
            ELSE With(new_ty_var(r.st, FALSE), LAMBDA n :
                     With(st_unify(n.st, pat.loc, i.ty, Arrow(Pair(l.ty, r.ty), Var(n.tv))), LAMBDA u :
            IF u.tag # "Ok" THEN u
            ELSE OkPat(u.st, m.map, ty_apply(Var(n.tv), u.st.subst)))))))))
    [] pat.n = "Typed" ->
         With(ck_pat(cx, s, pat.pat), LAMBDA p :
         IF p.tag # "Ok" THEN p
            ELSE With(ck_ty(cx, p.st, pat.ty), LAMBDA t :
            IF t.tag # "Ok" THEN t
            ELSE With(st_unify(t.st, pat.loc, p.ty, t.ty), LAMBDA u :
            IF u.tag # "Ok" THEN u
            ELSE OkPat(u.st, p.val_env, ty_apply(p.ty, u.st.subst)))))
    [] pat.n = "As" ->
         IF /\ pat.vid.val \in DOMAIN cx.env.val_env
            /\ cx.env.val_env[pat.vid.val].id_status # "Val"
         THEN Err(pat.vid.loc, "NonVarInAs", <<pat.vid.val>>)
         ELSE With(ck_pat(cx, s, pat.pat), LAMBDA p :
         IF p.tag # "Ok" THEN p
         ELSE With(IF pat.ty = <<>> THEN OkTy(p.st, p.ty)
                       ELSE With(ck_ty(cx, p.st, pat.ty[1]), LAMBDA c :
                            IF c.tag # "Ok" THEN c
                               ELSE With(st_unify(c.st, pat.loc, p.ty, c.ty), LAMBDA u :
                                    IF u.tag # "Ok" THEN u
                                       ELSE OkTy(u.st, ty_apply(p.ty, u.st.subst)))), LAMBDA t :
         IF t.tag # "Ok" THEN t
         ELSE With(ValInfoVal(TySchemeMono(t.ty)), LAMBDA val_info :
                  With(env_ins(p.val_env, pat.vid, val_info), LAMBDA m :
         IF m.tag # "Ok" THEN m
         ELSE OkPat(t.st, m.map, t.ty)))))

(* ------------------------------------------------------------------------ *)
(* Inferencer: expressions and declarations                                  *)
(* ------------------------------------------------------------------------ *)

ExpLitTy(n) ==
  CASE n \in {"DecInt", "HexInt"} -> TyBase("int")
    [] n \in {"DecWord", "HexWord"} -> TyBase("word")
    [] n = "Real" -> TyBase("real")
    [] n = "Str" -> TyBase("string")
    [] n = "Char" -> TyBase("char")

RECURSIVE ck_exp(_, _, _)
RECURSIVE ck_exp_rows(_, _, _, _, _)
RECURSIVE ck_exp_tuple(_, _, _, _, _)
RECURSIVE ck_exp_list(_, _, _, _)
RECURSIVE ck_exp_last(_, _, _, _)
RECURSIVE ck_cases(_, _, _)
RECURSIVE ck_arms(_, _, _, _, _)
RECURSIVE ck_dec(_, _, _)
RECURSIVE ck_val_binds(_, _, _, _, _)
RECURSIVE ck_ty_binds(_, _, _, _, _)
RECURSIVE ck_dat_binds(_, _, _, _, _)
RECURSIVE ck_con_binds(_, _, _, _, _, _)
RECURSIVE ck_dec_seq(_, _, _, _)

\* the loop of Exp::Record
ck_exp_rows(cx, s, rows, ty_rows, keys) ==
  IF rows = <<>> THEN OkTy(s, Record(ty_rows))
  ELSE With(Head(rows), LAMBDA row :
           With(ck_exp(cx, s, row.exp), LAMBDA r :
       IF r.tag # "Ok" THEN r
          ELSE IF row.lab.val \in keys
          THEN Err(row.lab.loc, "DuplicateLabel", <<row.lab.val>>)
          ELSE ck_exp_rows(cx, r.st, Tail(rows), Append(ty_rows, Row(row.lab.val, r.ty)),
                           keys \cup {row.lab.val})))

\* the loop of Exp::Tuple
ck_exp_tuple(cx, s, exps, idx, ty_rows) ==
  IF exps = <<>> THEN OkTy(s, Record(ty_rows))
  ELSE With(ck_exp(cx, s, Head(exps)), LAMBDA r :
       IF r.tag # "Ok" THEN r
          ELSE ck_exp_tuple(cx, r.st, Tail(exps), idx + 1,
                            Append(ty_rows, Row(tuple_lab(idx), r.ty))))

\* the loop of Exp::List
ck_exp_list(cx, s, exps, elem) ==
  IF exps = <<>> THEN OkTy(s, TyList(elem))
  ELSE With(ck_exp(cx, s, Head(exps)), LAMBDA r :
       IF r.tag # "Ok" THEN r
          ELSE With(st_unify(r.st, Head(exps).loc, elem, r.ty), LAMBDA u :
               IF u.tag # "Ok" THEN u
                  ELSE ck_exp_list(cx, u.st, Tail(exps), ty_apply(elem, u.st.subst))))

\* the loops of Exp::Sequence and Exp::Let: `last` is Option<(Loc, Ty)>; the
\* result carries the location of the last expression
ck_exp_last(cx, s, exps, last) ==
  IF exps = <<>>
  THEN IF last = <<>> THEN Panic(0, "unwrap")
       ELSE [tag |-> "Ok", st |-> s, ty |-> last[1].ty, loc |-> last[1].loc]
  ELSE With(ck_exp(cx, s, Head(exps)), LAMBDA r :
       IF r.tag # "Ok" THEN r
          ELSE ck_exp_last(cx, r.st, Tail(exps), <<[loc |-> Head(exps).loc, ty |-> r.ty]>>))

\* the loop of ck_cases over the arms
ck_arms(cx, s, arms, arg_ty, res_ty) ==
  IF arms = <<>> THEN [tag |-> "Ok", st |-> s, arg |-> arg_ty, res |-> res_ty]
  ELSE With(Head(arms), LAMBDA arm :
           With(ck_pat(cx, s, arm.pat), LAMBDA p :
       IF p.tag # "Ok" THEN p
          ELSE With([cx EXCEPT !.env.val_env = MapExtend(cx.env.val_env, p.val_env)], LAMBDA cx2 :
                   With(ck_exp(cx2, p.st, arm.exp), LAMBDA e :
          IF e.tag # "Ok" THEN e
          ELSE With(st_unify(e.st, arm.pat.loc, arg_ty, p.ty), LAMBDA u1 :
          IF u1.tag # "Ok" THEN u1
          ELSE With(st_unify(u1.st, arm.exp.loc, res_ty, e.ty), LAMBDA u2 :
          IF u2.tag # "Ok" THEN u2
          ELSE ck_arms(cx, u2.st, Tail(arms), ty_apply(arg_ty, u2.st.subst),
                       ty_apply(res_ty, u2.st.subst))))))))

ck_cases(cx, s, cases) ==
  With(new_ty_var(s, FALSE), LAMBDA a :
      With(new_ty_var(a.st, FALSE), LAMBDA r :
  ck_arms(cx, r.st, cases, Var(a.tv), Var(r.tv))))

\* App and InfixApp after their operands: unify the function against
\* arg -> fresh, and return the fresh variable under the substitution
ck_apply(s, loc, func_ty, arg_ty) ==
  With(new_ty_var(s, FALSE), LAMBDA n :
      With(st_unify(n.st, loc, func_ty, Arrow(arg_ty, Var(n.tv))), LAMBDA u :
  IF u.tag # "Ok" THEN u ELSE OkTy(u.st, ty_apply(Var(n.tv), u.st.subst))))

ck_exp(cx, s, exp) ==
  CASE exp.n \in {"DecInt", "HexInt", "DecWord", "HexWord", "Real", "Str", "Char"} ->
         OkTy(s, ExpLitTy(exp.n))
    [] exp.n = "LongVid" ->
         With(get_env(cx, exp.vid), LAMBDA e :
         IF e.tag # "Ok" THEN e
            ELSE With(get_val_info(e.env, exp.vid.last), LAMBDA v :
            IF v.tag # "Ok" THEN v
            ELSE instantiate(s, v.val_info.ty_scheme, exp.loc)))
    [] exp.n = "Record" -> ck_exp_rows(cx, s, exp.rows, <<>>, {})
    [] exp.n \in {"Select", "While"} -> Err(exp.loc, "Todo", <<>>)
    [] exp.n = "Tuple" -> ck_exp_tuple(cx, s, exp.exps, 0, <<>>)
    [] exp.n = "List" ->
         With(new_ty_var(s, FALSE), LAMBDA n : ck_exp_list(cx, n.st, exp.exps, Var(n.tv)))
    [] exp.n = "Sequence" ->
         With(ck_exp_last(cx, s, exp.exps, <<>>), LAMBDA r :
         IF r.tag # "Ok" THEN r ELSE OkTy(r.st, r.ty))
    [] exp.n = "Let" ->
         With(ck_dec(cx, s, exp.dec), LAMBDA d :
         IF d.tag # "Ok" THEN d
            ELSE With(ck_exp_last(o_plus(cx, d.env), d.st, exp.exps, <<>>), LAMBDA r :
            IF r.tag # "Ok" THEN r
            ELSE With([loc |-> r.loc, ty |-> r.ty, ty_names |-> cx.ty_names], LAMBDA ob :
            OkTy([r.st EXCEPT !.ty_name = Append(r.st.ty_name, ob)], r.ty))))
    [] exp.n = "App" ->
         With(ck_exp(cx, s, exp.func), LAMBDA f :
         IF f.tag # "Ok" THEN f
            ELSE With(ck_exp(cx, f.st, exp.arg), LAMBDA a :
            IF a.tag # "Ok" THEN a
            ELSE ck_apply(a.st, exp.loc, f.ty, a.ty)))
    [] exp.n = "InfixApp" ->
         With(get_val_info(cx.env, exp.func), LAMBDA v :
         IF v.tag # "Ok" THEN v
            ELSE With(instantiate(s, v.val_info.ty_scheme, exp.loc), LAMBDA f :
            IF f.tag # "Ok" THEN f
            ELSE With(ck_exp(cx, f.st, exp.lhs), LAMBDA l :
            IF l.tag # "Ok" THEN l
            ELSE With(ck_exp(cx, l.st, exp.rhs), LAMBDA r :
            IF r.tag # "Ok" THEN r
            ELSE ck_apply(r.st, exp.loc, f.ty, Pair(l.ty, r.ty))))))
    [] exp.n = "Typed" ->
         With(ck_exp(cx, s, exp.exp), LAMBDA e :
         IF e.tag # "Ok" THEN e
            ELSE With(ck_ty(cx, e.st, exp.ty), LAMBDA t :
            IF t.tag # "Ok" THEN t
            ELSE With(st_unify(t.st, exp.loc, e.ty, t.ty), LAMBDA u :
            IF u.tag # "Ok" THEN u
            ELSE OkTy(u.st, ty_apply(e.ty, u.st.subst)))))
    [] exp.n \in {"Andalso", "Orelse"} ->
         With(ck_exp(cx, s, exp.lhs), LAMBDA l :
         IF l.tag # "Ok" THEN l
            ELSE With(ck_exp(cx, l.st, exp.rhs), LAMBDA r :
            IF r.tag # "Ok" THEN r
            ELSE With(st_unify(r.st, exp.lhs.loc, l.ty, TyBase("bool")), LAMBDA u1 :
            IF u1.tag # "Ok" THEN u1
            ELSE With(st_unify(u1.st, exp.rhs.loc, r.ty, TyBase("bool")), LAMBDA u2 :
            IF u2.tag # "Ok" THEN u2
            ELSE OkTy(u2.st, TyBase("bool"))))))
    [] exp.n = "Handle" ->
         With(ck_exp(cx, s, exp.head), LAMBDA h :
         IF h.tag # "Ok" THEN h
            ELSE With(ck_cases(cx, h.st, exp.cases), LAMBDA c :
            IF c.tag # "Ok" THEN c
            ELSE With(st_unify(c.st, exp.loc, c.arg, TyBase("exn")), LAMBDA u1 :
            IF u1.tag # "Ok" THEN u1
            ELSE With(st_unify(u1.st, exp.loc, h.ty, c.res), LAMBDA u2 :
            IF u2.tag # "Ok" THEN u2
            ELSE OkTy(u2.st, ty_apply(h.ty, u2.st.subst))))))
    [] exp.n = "Raise" ->
         With(ck_exp(cx, s, exp.exp), LAMBDA e :
         IF e.tag # "Ok" THEN e
            ELSE With(st_unify(e.st, exp.exp.loc, e.ty, TyBase("exn")), LAMBDA u :
            IF u.tag # "Ok" THEN u
            ELSE With(new_ty_var(u.st, FALSE), LAMBDA n : OkTy(n.st, Var(n.tv)))))
    [] exp.n = "If" ->
         With(ck_exp(cx, s, exp.cond), LAMBDA c :
         IF c.tag # "Ok" THEN c
            ELSE With(ck_exp(cx, c.st, exp.then_e), LAMBDA t :
            IF t.tag # "Ok" THEN t
            ELSE With(ck_exp(cx, t.st, exp.else_e), LAMBDA e :
            IF e.tag # "Ok" THEN e
            ELSE With(st_unify(e.st, exp.cond.loc, c.ty, TyBase("bool")), LAMBDA u1 :
            IF u1.tag # "Ok" THEN u1
            ELSE With(st_unify(u1.st, exp.loc, t.ty, e.ty), LAMBDA u2 :
            IF u2.tag # "Ok" THEN u2
            ELSE OkTy(u2.st, ty_apply(t.ty, u2.st.subst)))))))
    [] exp.n = "Case" ->
         With(ck_exp(cx, s, exp.head), LAMBDA h :
         IF h.tag # "Ok" THEN h
            ELSE With(ck_cases(cx, h.st, exp.cases), LAMBDA c :
            IF c.tag # "Ok" THEN c
            ELSE With(st_unify(c.st, exp.loc, h.ty, c.arg), LAMBDA u :
            IF u.tag # "Ok" THEN u
            ELSE OkTy(u.st, ty_apply(c.res, u.st.subst)))))
    [] exp.n = "Fn" ->
         With(ck_cases(cx, s, exp.cases), LAMBDA c :
         IF c.tag # "Ok" THEN c ELSE OkTy(c.st, Arrow(c.arg, c.res)))

\* `for &name in other.keys() { ck_binding(..)? }` of Dec::Val
RECURSIVE ck_binding_keys(_, _)
ck_binding_keys(keys, loc) ==
  IF keys = <<>> THEN [tag |-> "Ok"]
  ELSE With(ck_binding(Located(Head(keys), loc)), LAMBDA r :
       IF r.tag # "Ok" THEN r ELSE ck_binding_keys(Tail(keys), loc))

\* Dec::Val unifying the type of the expression against the type of the
\* pattern instead
ck_val_binds_exp_first(cx, s, val_binds, val_env, dec_loc) ==
  IF val_binds = <<>> THEN OkEnv(s, EnvFromValEnv(val_env))
  ELSE With(Head(val_binds), LAMBDA vb :
       IF vb.rec THEN Err(dec_loc, "Todo", <<>>)
          ELSE With(ck_pat(cx, s, vb.pat), LAMBDA p :
          IF p.tag # "Ok" THEN p
          ELSE With(ck_binding_keys(KeysIter(DOMAIN p.val_env), vb.pat.loc), LAMBDA b :
          IF b.tag # "Ok" THEN b
          ELSE With(env_merge(val_env, p.val_env, vb.pat.loc), LAMBDA m :
          IF m.tag # "Ok" THEN m
          ELSE With(ck_exp(cx, p.st, vb.exp), LAMBDA e :
          IF e.tag # "Ok" THEN e
          ELSE With(st_unify(e.st, dec_loc, e.ty, p.ty), LAMBDA u :
          IF u.tag # "Ok" THEN u
          ELSE ck_val_binds(cx, u.st, Tail(val_binds), m.map, dec_loc)))))))

\* the loop of Dec::Val
ck_val_binds(cx, s, val_binds, val_env, dec_loc) ==
  IF val_binds = <<>> THEN OkEnv(s, EnvFromValEnv(val_env))
  ELSE With(Head(val_binds), LAMBDA vb :
       IF vb.rec THEN Err(dec_loc, "Todo", <<>>)
          ELSE With(ck_pat(cx, s, vb.pat), LAMBDA p :
          IF p.tag # "Ok" THEN p
          ELSE With(ck_binding_keys(KeysIter(DOMAIN p.val_env), vb.pat.loc), LAMBDA b :
          IF b.tag # "Ok" THEN b
          ELSE With(env_merge(val_env, p.val_env, vb.pat.loc), LAMBDA m :
          IF m.tag # "Ok" THEN m
          ELSE With(ck_exp(cx, p.st, vb.exp), LAMBDA e :
          IF e.tag # "Ok" THEN e
          ELSE With(st_unify(e.st, dec_loc, p.ty, e.ty), LAMBDA u :
          IF u.tag # "Ok" THEN u
          ELSE ck_val_binds(cx, u.st, Tail(val_binds), m.map, dec_loc)))))))

\* the loop of Dec::Type
ck_ty_binds(cx, s, ty_binds, ty_env, dec_loc) ==
  IF ty_binds = <<>> THEN OkEnv(s, EnvFromTyEnv(ty_env))
  ELSE With(Head(ty_binds), LAMBDA tb :
       IF tb.ty_vars # <<>> THEN Err(dec_loc, "Todo", <<>>)
          ELSE With(ck_ty(cx, s, tb.ty), LAMBDA t :
          IF t.tag # "Ok" THEN t
          ELSE IF tb.ty_con.val \in DOMAIN ty_env
          THEN Err(tb.ty_con.loc, "Redefined", <<tb.ty_con.val>>)
          ELSE ck_ty_binds(cx, t.st, Tail(ty_binds),
                           MapPut(ty_env, tb.ty_con.val, TyInfo(TySchemeMono(t.ty), EmptyMap)),
                           dec_loc)))

\* the constructor loop of Dec::Datatype without the duplicate-checked
\* insertion into the declaration-wide value environment
ck_con_binds_no_dupe_check(cx, s, cons, sym, val_env, bind_val_env) ==
  IF cons = <<>>
  THEN [tag |-> "Ok", st |-> s, val_env |-> val_env, bind_val_env |-> bind_val_env]
  ELSE With(Head(cons), LAMBDA cb :
           With(ck_binding(cb.vid), LAMBDA b :
       IF b.tag # "Ok" THEN b
          ELSE With(IF cb.ty = <<>> THEN OkTy(s, Ctor(<<>>, sym))
                        ELSE With(ck_ty(cx, s, cb.ty[1]), LAMBDA a :
                             IF a.tag # "Ok" THEN a
                                ELSE OkTy(a.st, Arrow(a.ty, Ctor(<<>>, sym)))), LAMBDA t :
          IF t.tag # "Ok" THEN t
          ELSE IF cb.vid.val \in DOMAIN bind_val_env
          THEN Panic(cb.vid.loc, "bind_val_env.insert")
          ELSE ck_con_binds(cx, t.st, Tail(cons), sym,
                            MapPut(val_env, cb.vid.val, ValInfoCtor(TySchemeMono(t.ty))),
                            MapPut(bind_val_env, cb.vid.val,
                                   ValInfoCtor(TySchemeMono(t.ty)))))))

\* the loop of Dec::Datatype over the constructors of one DatBind; the result
\* carries the declaration-wide and the DatBind-specific value environments
ck_con_binds(cx, s, cons, sym, val_env, bind_val_env) ==
  IF cons = <<>>
  THEN [tag |-> "Ok", st |-> s, val_env |-> val_env, bind_val_env |-> bind_val_env]
  ELSE With(Head(cons), LAMBDA cb :
           With(ck_binding(cb.vid), LAMBDA b :
       IF b.tag # "Ok" THEN b
          ELSE With(IF cb.ty = <<>> THEN OkTy(s, Ctor(<<>>, sym))
                        ELSE With(ck_ty(cx, s, cb.ty[1]), LAMBDA a :
                             IF a.tag # "Ok" THEN a
                                ELSE OkTy(a.st, Arrow(a.ty, Ctor(<<>>, sym)))), LAMBDA t :
          IF t.tag # "Ok" THEN t
          ELSE With(env_ins(val_env, cb.vid, ValInfoCtor(TySchemeMono(t.ty))), LAMBDA i :
          IF i.tag # "Ok" THEN i
          ELSE IF cb.vid.val \in DOMAIN bind_val_env
          THEN Panic(cb.vid.loc, "bind_val_env.insert")
          ELSE ck_con_binds(cx, t.st, Tail(cons), sym, i.map,
                            MapPut(bind_val_env, cb.vid.val,
                                   ValInfoCtor(TySchemeMono(t.ty))))))))

\* the loop of Dec::Datatype over the DatBinds without the duplicate check of
\* the type constructor against the context
ck_dat_binds_no_dupe_check(cx, s, dat_binds, ty_env, val_env) ==
  IF dat_binds = <<>> THEN OkEnv(s, Env(EmptyMap, ty_env, val_env))
  ELSE With(Head(dat_binds), LAMBDA db :
       IF db.ty_vars # <<>> THEN Err(db.ty_vars[1].loc, "Todo", <<>>)
          ELSE With(new_sym(s, db.ty_con), LAMBDA n :
                   With(TyInfo(TySchemeMono(Ctor(<<>>, n.sym)), EmptyMap), LAMBDA fake :
                   With([cx EXCEPT !.env.ty_env = MapPut(cx.env.ty_env, db.ty_con.val, fake),
                                   !.ty_names = cx.ty_names \cup {db.ty_con.val}], LAMBDA cx2 :
                   With(ck_con_binds(cx2, n.st, db.cons, n.sym, val_env, EmptyMap), LAMBDA c :
          IF c.tag # "Ok" THEN c
          ELSE IF db.ty_con.val \in DOMAIN ty_env
          THEN Panic(db.ty_con.loc, "ty_env.insert")
          ELSE ck_dat_binds(cx2, c.st, Tail(dat_binds),
                            MapPut(ty_env, db.ty_con.val,
                                   TyInfo(TySchemeMono(Ctor(<<>>, n.sym)), c.bind_val_env)),
                            c.val_env))))))

\* the loop of Dec::Datatype over the DatBinds
ck_dat_binds(cx, s, dat_binds, ty_env, val_env) ==
  IF dat_binds = <<>> THEN OkEnv(s, Env(EmptyMap, ty_env, val_env))
  ELSE With(Head(dat_binds), LAMBDA db :
       IF db.ty_vars # <<>> THEN Err(db.ty_vars[1].loc, "Todo", <<>>)
          ELSE With(new_sym(s, db.ty_con), LAMBDA n :
                   With(TyInfo(TySchemeMono(Ctor(<<>>, n.sym)), EmptyMap), LAMBDA fake :
                   With(env_ins(cx.env.ty_env, db.ty_con, fake), LAMBDA i :
          IF i.tag # "Ok" THEN i
          ELSE With([cx EXCEPT !.env.ty_env = i.map,
                                     !.ty_names = cx.ty_names \cup {db.ty_con.val}], LAMBDA cx2 :
                   With(ck_con_binds(cx2, n.st, db.cons, n.sym, val_env, EmptyMap), LAMBDA c :
          IF c.tag # "Ok" THEN c
          ELSE IF db.ty_con.val \in DOMAIN ty_env
          THEN Panic(db.ty_con.loc, "ty_env.insert")
          ELSE ck_dat_binds(cx2, c.st, Tail(dat_binds),
                            MapPut(ty_env, db.ty_con.val,
                                   TyInfo(TySchemeMono(Ctor(<<>>, n.sym)), c.bind_val_env)),
                            c.val_env)))))))

\* the loop of Dec::Seq checking every declaration in the enclosing context
ck_dec_seq_no_o_plus(cx, s, decs, ret) ==
  IF decs = <<>> THEN OkEnv(s, ret)
  ELSE With(ck_dec(cx, s, Head(decs)), LAMBDA d :
       IF d.tag # "Ok" THEN d
          ELSE ck_dec_seq(cx, d.st, Tail(decs), env_extend(ret, d.env)))

\* the loop of Dec::Seq
ck_dec_seq(cx, s, decs, ret) ==
  IF decs = <<>> THEN OkEnv(s, ret)
  ELSE With(o_plus(cx, ret), LAMBDA cx2 :
           With(ck_dec(cx2, s, Head(decs)), LAMBDA d :
       IF d.tag # "Ok" THEN d
          ELSE ck_dec_seq(cx2, d.st, Tail(decs), env_extend(ret, d.env))))

ck_dec(cx, s, dec) ==
  CASE dec.n = "Val" ->
         IF dec.ty_vars # <<>> THEN Err(dec.ty_vars[1].loc, "Todo", <<>>)
         ELSE ck_val_binds(cx, s, dec.val_binds, EmptyMap, dec.loc)
    [] dec.n = "Type" -> ck_ty_binds(cx, s, dec.ty_binds, EmptyMap, dec.loc)
    [] dec.n = "Datatype" ->
         IF dec.ty_binds # <<>> THEN Err(dec.ty_binds[1].ty_con.loc, "Todo", <<>>)
         ELSE ck_dat_binds(cx, s, dec.dat_binds, EmptyMap, EmptyMap)
    [] dec.n = "Seq" -> ck_dec_seq(cx, s, dec.decs, EnvDefault)
    [] dec.n \in {"Infix", "Infixr", "Nonfix"} -> OkEnv(s, EnvDefault)
    [] dec.n \in {"Fun", "DatatypeCopy", "Abstype", "Exception", "Local", "Open"} ->
         Err(dec.loc, "Todo", <<>>)

ck_top_dec(b, s, top_dec) ==
  IF top_dec.n = "Dec"
  THEN With(Cx(b.ty_names, {}, b.env), LAMBDA cx :
           With(ck_dec(cx, s, top_dec.dec), LAMBDA d :
       IF d.tag # "Ok" THEN d
          ELSE With(o_plus(cx, d.env), LAMBDA cx2 :
               [tag |-> "Ok", st |-> d.st,
                   bs |-> Basis(cx2.ty_names, b.fun_env, b.sig_env, cx2.env)])))
  ELSE Err(top_dec.loc, "Todo", <<>>)

(* ------------------------------------------------------------------------ *)
(* State::solve and get                                                      *)
(* ------------------------------------------------------------------------ *)

\* solve_overload trying the candidates from the last to the first
RECURSIVE solve_overload_last_first(_, _, _, _)
solve_overload_last_first(subst, loc, tv, overloads) ==
  IF overloads = <<>> THEN Err(loc, "NoSuitableOverload", <<>>)
  ELSE With(overloads[Len(overloads)], LAMBDA c :
           With(unify(subst, loc, Var(tv), TyBase(c)), LAMBDA u :
       IF u.tag = "Ok" THEN [tag |-> "Ok", subst |-> u.subst]
          ELSE IF u.tag = "Panic" THEN Fail(u)
          ELSE solve_overload_last_first(subst, loc, tv,
                                         SubSeq(overloads, 1, Len(overloads) - 1))))

\* the inner loop of solve for one obligation: the candidates are tried in
\* order, each against a clone of the substitution
RECURSIVE solve_overload(_, _, _, _)
solve_overload(subst, loc, tv, overloads) ==
  IF overloads = <<>> THEN Err(loc, "NoSuitableOverload", <<>>)
  ELSE With(unify(subst, loc, Var(tv), TyBase(Head(overloads))), LAMBDA u :
       IF u.tag = "Ok" THEN [tag |-> "Ok", subst |-> u.subst]
          ELSE IF u.tag = "Panic" THEN Fail(u)
          ELSE solve_overload(subst, loc, tv, Tail(overloads)))

\* the first loop of solve
RECURSIVE solve_overloads(_, _)
solve_overloads(subst, obs) ==
  IF obs = <<>> THEN [tag |-> "Ok", subst |-> subst]
  ELSE With(solve_overload(subst, Head(obs).loc, Head(obs).tv, Head(obs).overloads), LAMBDA r :
       IF r.tag # "Ok" THEN r ELSE solve_overloads(r.subst, Tail(obs)))

\* the second loop of solve
RECURSIVE solve_ty_names(_, _)
solve_ty_names(subst, obs) ==
  IF obs = <<>> THEN [tag |-> "Ok", subst |-> subst]
  ELSE IF ~(ty_names(ty_apply(Head(obs).ty, subst)) \subseteq Head(obs).ty_names)
  THEN Err(Head(obs).loc, "TyNameEscape", <<>>)
  ELSE solve_ty_names(subst, Tail(obs))

solve(s) ==
  With(solve_overloads(s.subst, s.overload), LAMBDA o :
  IF o.tag # "Ok" THEN o ELSE solve_ty_names(o.subst, s.ty_name))

\* the last three lines of get
get_finish(b, subst) ==
  With(basis_apply(b, subst), LAMBDA applied :
  IF basis_free_ty_vars(applied) # {}
     THEN [tag |-> "Panic", bs |-> applied,
           err |-> StaticsError(0, "bs.free_ty_vars().is_empty()", <<>>)]
     ELSE [tag |-> "Ok", bs |-> applied])

\* get_walk going on after a rejected declaration: the last error is returned
RECURSIVE get_walk_no_abort(_, _, _)
get_walk_no_abort(b, s, tds) ==
  IF tds = <<>> THEN [tag |-> "Ok", bs |-> b, st |-> s]
  ELSE With(ck_top_dec(b, s, Head(tds)), LAMBDA r :
       IF r.tag = "Ok" THEN get_walk_no_abort(r.bs, r.st, Tail(tds))
          ELSE With(get_walk_no_abort(b, s, Tail(tds)), LAMBDA later :
               IF later.tag = "Ok" THEN r ELSE later))

\* the loop of get
RECURSIVE get_walk(_, _, _)
get_walk(b, s, tds) ==
  IF tds = <<>> THEN [tag |-> "Ok", bs |-> b, st |-> s]
  ELSE With(ck_top_dec(b, s, Head(tds)), LAMBDA r :
       IF r.tag # "Ok" THEN r ELSE get_walk(r.bs, r.st, Tail(tds)))

\* get, as a function of its input
get(tds) ==
  With(get_walk(std_lib.bs, std_lib.st, tds), LAMBDA w :
  IF w.tag # "Ok" THEN w
     ELSE With(solve(w.st), LAMBDA sv :
          IF sv.tag # "Ok" THEN sv
             ELSE With(get_finish(w.bs, sv.subst), LAMBDA f :
                  IF f.tag # "Ok" THEN Fail(f) ELSE [tag |-> "Ok"])))

(* ------------------------------------------------------------------------ *)
(* Input programs                                                            *)
(*                                                                           *)
(* A top-level declaration of the input is named by a descriptor             *)
(* [d, a, b]; TopDecOf builds its syntax tree with the locations             *)
(* base, base + 1, ...                                                       *)
(* ------------------------------------------------------------------------ *)

Desc(d, a, b) == [d |-> d, a |-> a, b |-> b]

\* `val name = exp`; the declaration is at base + 1, the pattern at base + 2
ValDec(name, exp, base) ==
  TopStrDec(DVal(<<>>, <<ValBind(FALSE, PLongVid(Vid(name, base + 2), base + 2), exp)>>,
                 base + 1),
            base)

\* the expression `name`
EVid(name, loc) == ELongVid(Vid(name, loc), loc)

\* the pattern `name`
PVid(name, loc) == PLongVid(Vid(name, loc), loc)

\* `datatype ty_con = con` with one nullary constructor, at loc and loc + 1
DatNullary(ty_con, con, loc) ==
  DDatatype(<<DatBind(<<>>, Located(ty_con, loc), <<ConBind(Located(con, loc + 1), <<>>)>>)>>,
            <<>>, loc)

\* `fn name => body`
FnOf(name, body, loc) == EFn(<<Arm(PVid(name, loc + 1), body)>>, loc)

\* a literal (or constant) of the base type `ty`
LitOf(ty, loc) ==
  CASE ty = "int" -> ELit("DecInt", loc)
    [] ty = "word" -> ELit("DecWord", loc)
    [] ty = "real" -> ELit("Real", loc)
    [] ty = "string" -> ELit("Str", loc)
    [] ty = "char" -> ELit("Char", loc)
    [] ty = "bool" -> EVid("true", loc)
    [] ty = "order" -> EVid("LESS", loc)
    [] ty = "unit" -> ETuple(<<>>, loc)

\* the type expressions `int list`, `list`, `(int, int) list`, `int int` and
\* `int list list`
AnnoTy(code, loc) ==
  With(TTyCon(<<>>, Vid("int", loc + 1), loc + 1), LAMBDA int :
  CASE code = "list1" -> TTyCon(<<int>>, Vid("list", loc), loc)
    [] code = "list0" -> TTyCon(<<>>, Vid("list", loc), loc)
    [] code = "list2" -> TTyCon(<<int, int>>, Vid("list", loc), loc)
    [] code = "int1" -> TTyCon(<<int>>, Vid("int", loc), loc)
    [] code = "list_list" ->
         TTyCon(<<TTyCon(<<int>>, Vid("list", loc + 2), loc + 2)>>, Vid("list", loc), loc))

\* the declaration `val name = exp` inside a sequence, at loc and loc + 1
ValIn(name, exp, loc) ==
  DVal(<<>>, <<ValBind(FALSE, PVid(name, loc + 1), exp)>>, loc)

\* val x = <literal of type a>; val y = x; val x = <literal of type b>
SeqXYX(a, b, loc) ==
  DSeq(<<ValIn("x", LitOf(a, loc + 3), loc + 1),
         ValIn("y", EVid("x", loc + 6), loc + 4),
         ValIn("x", LitOf(b, loc + 9), loc + 7)>>, loc)

TopDecOf(desc, base) ==
  CASE desc.d = "val_lit" ->       \* val x = <literal of type b>
         ValDec(desc.a, LitOf(desc.b, base + 3), base)
    [] desc.d = "val_id" ->        \* val f = fn y => y
         ValDec("f", FnOf("y", EVid("y", base + 5), base + 3), base)
    [] desc.d = "val_app" ->       \* val y = f <literal of type b>
         ValDec("y", EApp(EVid("f", base + 4), LitOf(desc.b, base + 5), base + 3), base)
    [] desc.d = "val_forbidden" -> \* val true = 1
         ValDec("true", ELit("DecInt", base + 3), base)
    [] desc.d = "val_selfapp" ->   \* val w = fn x => x x
         ValDec("w", FnOf("x", EApp(EVid("x", base + 6), EVid("x", base + 7), base + 5),
                          base + 3), base)
    [] desc.d = "arith" ->         \* val v = <b> a <b>
         ValDec("v", EInfixApp(LitOf(desc.b, base + 4), Located(desc.a, base + 5),
                               LitOf(desc.b, base + 6), base + 3), base)
    [] desc.d = "let_escape" ->    \* val e = let datatype t = C in C end
         ValDec("e", ELet(DatNullary("t", "C", base + 4), <<EVid("C", base + 6)>>, base + 3),
                base)
    [] desc.d = "let_leak" ->      \* val h = fn x => let datatype t = C in ([x, C]; 1) end
         ValDec("h",
                FnOf("x",
                     ELet(DatNullary("t", "C", base + 6),
                          <<ESequence(<<EList(<<EVid("x", base + 10), EVid("C", base + 11)>>,
                                              base + 9),
                                        ELit("DecInt", base + 12)>>, base + 8)>>,
                          base + 5),
                     base + 3),
                base)
    [] desc.d = "let_same" ->      \* val l = [let datatype t = C in C end,
                                   \*          let datatype t = C in C end]
         ValDec("l",
                EList(<<ELet(DatNullary("t", "C", base + 5), <<EVid("C", base + 7)>>, base + 4),
                        ELet(DatNullary("t", "C", base + 9), <<EVid("C", base + 11)>>,
                             base + 8)>>,
                      base + 3),
                base)
    [] desc.d = "datatype" ->      \* datatype a = b | B of int
         TopStrDec(
           DDatatype(<<DatBind(<<>>, Located(desc.a, base + 2),
                               <<ConBind(Located(desc.b, base + 3), <<>>),
                                 ConBind(Located("B", base + 4),
                                         <<TTyCon(<<>>, Vid("int", base + 5), base + 5)>>)>>)>>,
                     <<>>, base + 1),
           base)
    [] desc.d = "plus_div" ->      \* val g = fn x => x + (x / x)
         ValDec("g",
                FnOf("x",
                     EInfixApp(EVid("x", base + 6), Located("+", base + 7),
                               EInfixApp(EVid("x", base + 9), Located("/", base + 10),
                                         EVid("x", base + 11), base + 8),
                               base + 5),
                     base + 3),
                base)
    [] desc.d = "app_g" ->         \* val z = g <literal of type b>
         ValDec("z", EApp(EVid("g", base + 4), LitOf(desc.b, base + 5), base + 3), base)
    [] desc.d = "signature" ->     \* a module-level declaration
         TopOther("SigDec", base)
    [] desc.d = "arith_mixed" ->   \* val v = <a> + <b>
         ValDec("v", EInfixApp(LitOf(desc.a, base + 4), Located("+", base + 5),
                               LitOf(desc.b, base + 6), base + 3), base)
    [] desc.d = "val_typed" ->     \* val b : a = <literal of type b>
         TopStrDec(
           DVal(<<>>,
                <<ValBind(FALSE,
                          PTyped(PVid("b", base + 3),
                                 TTyCon(<<>>, Vid(desc.a, base + 4), base + 4), base + 2),
                          LitOf(desc.b, base + 5))>>,
                base + 1),
           base)
    [] desc.d = "val_anno" ->      \* val l : <type a> = nil
         TopStrDec(
           DVal(<<>>,
                <<ValBind(FALSE,
                          PTyped(PVid("l", base + 3), AnnoTy(desc.a, base + 4), base + 2),
                          EVid("nil", base + 8))>>,
                base + 1),
           base)
    [] desc.d = "seq" ->           \* val x = <a>; val y = x; val x = <b>
         TopStrDec(SeqXYX(desc.a, desc.b, base + 1), base)
    [] desc.d = "let_seq" ->       \* val r = let val x = <a>; val y = x; val x = <b>
                                   \*         in (x, y) end
         ValDec("r",
                ELet(SeqXYX(desc.a, desc.b, base + 4),
                     <<ETuple(<<EVid("x", base + 15), EVid("y", base + 16)>>, base + 14)>>,
                     base + 3),
                base)
    [] desc.d = "seq_dat" ->       \* datatype s = S; val z = S
         TopStrDec(DSeq(<<DatNullary("s", "S", base + 2),
                          ValIn("z", EVid("S", base + 6), base + 4)>>, base + 1),
                   base)
    [] desc.d = "dat_group" ->     \* datatype t = T1 of a and u = U1 of b
         TopStrDec(
           DDatatype(<<DatBind(<<>>, Located("t", base + 2),
                               <<ConBind(Located("T1", base + 3),
                                         <<TTyCon(<<>>, Vid(desc.a, base + 4), base + 4)>>)>>),
                       DatBind(<<>>, Located("u", base + 5),
                               <<ConBind(Located("U1", base + 6),
                                         <<TTyCon(<<>>, Vid(desc.b, base + 7), base + 7)>>)>>)>>,
                     <<>>, base + 1),
           base)
    [] desc.d = "let_id" ->        \* val k = fn x => let val y = x in y end
         ValDec("k",
                FnOf("x",
                     ELet(ValIn("y", EVid("x", base + 8), base + 6),
                          <<EVid("y", base + 9)>>, base + 5),
                     base + 3),
                base)
    [] desc.d = "app_k" ->         \* val z = k <literal of type b>
         ValDec("z", EApp(EVid("k", base + 4), LitOf(desc.b, base + 5), base + 3), base)
    [] desc.d = "seq_dat_app" ->   \* datatype s = S; val z = k S
         TopStrDec(DSeq(<<DatNullary("s", "S", base + 2),
                          ValIn("z", EApp(EVid("k", base + 7), EVid("S", base + 8), base + 6),
                                base + 4)>>, base + 1),
                   base)
    [] desc.d = "dat_and" ->       \* datatype a = P and b = Q
         TopStrDec(
           DDatatype(<<DatBind(<<>>, Located(desc.a, base + 2),
                               <<ConBind(Located("P", base + 3), <<>>)>>),
                       DatBind(<<>>, Located(desc.b, base + 4),
                               <<ConBind(Located("Q", base + 5), <<>>)>>)>>,
                     <<>>, base + 1),
           base)
    [] desc.d = "dat_cons" ->      \* datatype v = a | b
         TopStrDec(
           DDatatype(<<DatBind(<<>>, Located("v", base + 2),
                               <<ConBind(Located(desc.a, base + 3), <<>>),
                                 ConBind(Located(desc.b, base + 4), <<>>)>>)>>,
                     <<>>, base + 1),
           base)
    [] desc.d = "dat_cons_and" ->  \* datatype v = a and w = b of int
         TopStrDec(
           DDatatype(<<DatBind(<<>>, Located("v", base + 2),
                               <<ConBind(Located(desc.a, base + 3), <<>>)>>),
                       DatBind(<<>>, Located("w", base + 4),
                               <<ConBind(Located(desc.b, base + 5),
                                         <<TTyCon(<<>>, Vid("int", base + 6), base + 6)>>)>>)>>,
                     <<>>, base + 1),
           base)
    [] desc.d = "let_dat" ->       \* val e = let datatype a = C in 1 end
         ValDec("e", ELet(DatNullary(desc.a, "C", base + 4), <<ELit("DecInt", base + 6)>>,
                          base + 3),
                base)
    [] desc.d = "type_alias" ->    \* type a = b
         TopStrDec(DType(<<TyBind(<<>>, Located(desc.a, base + 2),
                                  TTyCon(<<>>, Vid(desc.b, base + 3), base + 3))>>,
                         base + 1),
                   base)
    [] desc.d = "unary" ->         \* val v = a <literal of type b>
         ValDec("v", EApp(EVid(desc.a, base + 4), LitOf(desc.b, base + 5), base + 3), base)

\* the syntax trees of the program named by the descriptors `descs`
Program(descs) == [i \in 1..Len(descs) |-> TopDecOf(descs[i], i * LocStride)]

\* the declarations the checker is run on
Catalogue ==
  { Desc("val_lit", "x", "int"), Desc("val_id", "", ""), Desc("val_app", "", "int"),
    Desc("val_forbidden", "", ""), Desc("val_selfapp", "", ""),
    Desc("arith", "+", "int"), Desc("arith", "+", "string"),
    Desc("let_escape", "", ""), Desc("let_leak", "", ""), Desc("let_same", "", ""),
    Desc("datatype", "t", "A"), Desc("datatype", "u", "A"),
    Desc("plus_div", "", ""), Desc("app_g", "", "real"), Desc("signature", "", "") }

\* the sequences over S of length at most n
RECURSIVE SeqsUpTo(_, _)
SeqsUpTo(S, n) ==
  IF n = 0 THEN {<<>>}
  ELSE With(SeqsUpTo(S, n - 1), LAMBDA shorter :
       shorter \cup {Append(q, x) : q \in shorter, x \in S})

(* ------------------------------------------------------------------------ *)
(* get as a state machine                                                    *)
(* ------------------------------------------------------------------------ *)

NoResult == [tag |-> "None"]

\* the state of get after `let (mut bs, mut st) = std_lib();`
InitOn(programs) ==
  /\ top_decs \in programs
  /\ hash_rev \in BOOLEAN
  /\ next_dec = 1
  /\ bs = std_lib.bs
  /\ st = std_lib.st
  /\ pc = "walk"
  /\ result = NoResult

Init == InitOn(SeqsUpTo(Catalogue, MaxDecs))

\* one iteration of `for top_dec in top_decs`, or the end of the loop
CkTopDec ==
  /\ pc = "walk"
  /\ IF next_dec > Len(top_decs)
     THEN /\ pc' = "solve"
          /\ UNCHANGED <<bs, st, result, next_dec>>
     ELSE LET r == ck_top_dec(bs, st, Program(top_decs)[next_dec])
          IN IF r.tag = "Ok"
             THEN /\ bs' = r.bs
                  /\ st' = r.st
                  /\ next_dec' = next_dec + 1
                  /\ UNCHANGED <<pc, result>>
             ELSE /\ result' = Fail(r)
                  /\ pc' = "done"
                  /\ UNCHANGED <<bs, st, next_dec>>
  /\ UNCHANGED <<top_decs, hash_rev>>

\* one iteration of the first loop of solve
SolveOverload ==
  /\ pc = "solve"
  /\ st.overload # <<>>
  /\ LET ob == Head(st.overload)
         r == solve_overload(st.subst, ob.loc, ob.tv, ob.overloads)
     IN IF r.tag = "Ok"
        THEN /\ st' = [st EXCEPT !.subst = r.subst, !.overload = Tail(st.overload)]
             /\ UNCHANGED <<pc, result>>
        ELSE /\ result' = Fail(r)
             /\ pc' = "done"
             /\ UNCHANGED st
  /\ UNCHANGED <<top_decs, next_dec, bs, hash_rev>>

\* the second loop of solve run without waiting for the first
SolveTyNamesFirst ==
  /\ pc = "solve"
  /\ LET r == solve_ty_names(st.subst, st.ty_name)
     IN IF r.tag = "Ok"
        THEN /\ pc' = "apply"
             /\ st' = [st EXCEPT !.ty_name = <<>>]
             /\ UNCHANGED result
        ELSE /\ result' = Fail(r)
             /\ pc' = "done"
             /\ UNCHANGED st
  /\ UNCHANGED <<top_decs, next_dec, bs, hash_rev>>

\* the second loop of solve
SolveTyNames ==
  /\ pc = "solve"
  /\ st.overload = <<>>
  /\ LET r == solve_ty_names(st.subst, st.ty_name)
     IN IF r.tag = "Ok"
        THEN /\ pc' = "apply"
             /\ st' = [st EXCEPT !.ty_name = <<>>]
             /\ UNCHANGED result
        ELSE /\ result' = Fail(r)
             /\ pc' = "done"
             /\ UNCHANGED st
  /\ UNCHANGED <<top_decs, next_dec, bs, hash_rev>>

\* bs.apply(&subst); assert!(bs.free_ty_vars().is_empty()); Ok(())
Finish ==
  /\ pc = "apply"
  /\ LET f == get_finish(bs, st.subst)
     IN /\ bs' = f.bs
        /\ result' = IF f.tag = "Ok" THEN [tag |-> "Ok"] ELSE Fail(f)
  /\ pc' = "done"
  /\ UNCHANGED <<top_decs, next_dec, st, hash_rev>>

Next == CkTopDec \/ SolveOverload \/ SolveTyNames \/ Finish

Spec == Init /\ [][Next]_vars

(* ------------------------------------------------------------------------ *)
(* Helpers of the properties                                                 *)
(* ------------------------------------------------------------------------ *)

\* the symbols of the constructor applications in a type
RECURSIVE ty_syms(_)
ty_syms(ty) ==
  CASE ty.k = "Var" -> {}
    [] ty.k = "Record" -> UNION {ty_syms(ty.rows[i].ty) : i \in 1..Len(ty.rows)}
    [] ty.k = "Arrow" -> ty_syms(ty.arg) \cup ty_syms(ty.res)
    [] ty.k = "Ctor" -> {ty.sym} \cup UNION {ty_syms(ty.args[i]) : i \in 1..Len(ty.args)}

\* the generated (datatype) symbols among them
GeneratedSyms(ty) == {y \in ty_syms(ty) : y.id.some}

\* the types of the values of the basis
BasisValueTys == {bs.env.val_env[x].ty_scheme.ty : x \in DOMAIN bs.env.val_env}

\* every type the state holds: the values and type functions of the basis, the
\* ranges of the substitution, the scope-escape obligations
StateTys ==
  BasisValueTys
    \cup {bs.env.ty_env[x].ty_fcn.ty : x \in DOMAIN bs.env.ty_env}
    \cup {st.subst[tv] : tv \in DOMAIN st.subst}
    \cup {st.ty_name[i].ty : i \in 1..Len(st.ty_name)}

StateSyms == UNION {GeneratedSyms(ty) : ty \in StateTys}

\* the locations of the type constructors bound by the top-level datatype
\* declarations of the input (those not inside a let)
TopLevelDatatypeLocs ==
  UNION { With(Program(top_decs)[i], LAMBDA td :
          IF td.n = "Dec" /\ td.dec.n = "Datatype"
             THEN {td.dec.dat_binds[j].ty_con.loc : j \in 1..Len(td.dec.dat_binds)}
             ELSE {})
          : i \in 1..Len(top_decs) }

\* get on the first k declarations of the input
GetPrefix(k) == get(Program(SubSeq(top_decs, 1, k)))

HasDec(d) == \E i \in 1..Len(top_decs) : top_decs[i].d = d

(* ------------------------------------------------------------------------ *)
(* Properties of get                                                         *)
(* ------------------------------------------------------------------------ *)

\* C1: get always ends in Ok or in a located error: when the walk and solve
\* succeed, the basis under the final substitution has no free type variable
\* and the assertion at the end of get holds.
C1_NoAssertionFailure ==
  pc = "done" =>
    /\ result.tag \in {"Ok", "Err"}
    /\ result.tag = "Ok" => basis_free_ty_vars(bs) = {}

\* C2: whenever get returns Ok, no datatype symbol generated inside a let
\* occurs in the type of a value of the final basis.
C2_NoScopeEscape ==
  pc = "done" /\ result.tag = "Ok" =>
    \A ty \in BasisValueTys :
      \A y \in GeneratedSyms(ty) : y.id.loc \in TopLevelDatatypeLocs

\* C3 (as claimed): whatever the kind of the error e that get returns on a
\* prefix of the input, get returns e on the whole input.
C3_AnyErrorIsStable ==
  pc = "done" =>
    \A k \in 0..Len(top_decs) :
      LET g == GetPrefix(k)
      IN g.tag = "Err" => result.tag = "Err" /\ SameError(result.err, g.err)

SolveErrorKinds == {"NoSuitableOverload", "TyNameEscape"}

\* C3 (amended): when the walk of a prefix of the input fails with the error
\* e, get returns e on the whole input.
C3_WalkErrorIsStable ==
  pc = "done" =>
    \A k \in 0..Len(top_decs) :
      LET g == GetPrefix(k)
      IN g.tag = "Err" /\ g.err.kind \notin SolveErrorKinds =>
           result.tag = "Err" /\ SameError(result.err, g.err)

\* get ended with the walk error of the first declaration of a longer input
C3_Witness ==
  /\ pc = "done"
  /\ Len(top_decs) = 2
  /\ GetPrefix(1).tag = "Err"
  /\ GetPrefix(1).err.kind = "ForbiddenBinding"
  /\ result.tag = "Err"
  /\ result.err.loc < 2 * LocStride

\* the candidates of the obligation `ob` that unify under `subst`, by position
UnifyingCandidates(subst, ob) ==
  {i \in 1..Len(ob.overloads) :
     unify(subst, ob.loc, Var(ob.tv), TyBase(ob.overloads[i])).tag = "Ok"}

Min(S) == CHOOSE x \in S : \A y \in S : x <= y

\* C4: solve resolves an overload obligation to the first candidate, in the
\* declared order, that unifies under the substitution of that moment, and
\* adopts the substitution of that unification alone; when no candidate
\* unifies, get fails with NoSuitableOverload at the obligation's location.
C4_OverloadOrdering ==
  [][SolveOverload =>
       LET ob == Head(st.overload)
           ok == UnifyingCandidates(st.subst, ob)
       IN IF ok = {}
          THEN /\ pc' = "done"
               /\ result'.tag = "Err"
               /\ result'.err.kind = "NoSuitableOverload"
               /\ result'.err.loc = ob.loc
          ELSE LET first == ob.overloads[Min(ok)]
               IN /\ ty_apply(Var(ob.tv), st'.subst) = TyBase(first)
                  /\ st'.subst = unify(st.subst, ob.loc, Var(ob.tv), TyBase(first)).subst
                  /\ pc' = "solve"]_vars

\* every obligation of `val g = fn x => x + (x / x)` was resolved, those of a
\* later use of g at real included: `+` was resolved to its third candidate
C4_Witness ==
  /\ pc = "solve"
  /\ st.overload = <<>>
  /\ Len(top_decs) = 2
  /\ top_decs[1].d = "plus_div"
  /\ ty_apply(bs.env.val_env["g"].ty_scheme.ty, st.subst)
       = Arrow(TyBase("real"), TyBase("real"))

\* C8: the datatype bindings elaborated in one check have symbols of distinct
\* origins, also when their names are equal, and the types of two distinct
\* datatype bindings do not unify: HeadMismatch.
C8_GenerativeIdentity ==
  /\ \A y \in StateSyms : y.id.val < st.next_sym
  /\ \A y, z \in StateSyms :
       /\ y.id.val = z.id.val => y = z
       /\ y # z =>
            LET u == unify(st.subst, 0, Ctor(<<>>, y), Ctor(<<>>, z))
            IN u.tag = "Err" /\ u.err.kind = "HeadMismatch"
  /\ pc = "done" /\ Len(top_decs) > 0 /\ top_decs[1].d = "let_same" =>
       /\ result.tag = "Err"
       /\ result.err.kind = "HeadMismatch"
       /\ result.err.args[1].sym.name = result.err.args[2].sym.name

\* two datatype bindings of the same name are in the state
C8_Witness ==
  \E y, z \in StateSyms : y # z /\ y.name = z.name

(* ------------------------------------------------------------------------ *)
(* Overloaded operators of the basis                                         *)
(* ------------------------------------------------------------------------ *)

OverloadedOps == {"+", "-", "div", "mod", "*", "/", "<", ">", "<=", ">="}

OperandTys == {"int", "word", "real", "string", "char", "bool", "order", "unit"}

\* `val v = <b> a <b>` for every overloaded infix operator a and operand type b
OverloadCatalogue == {Desc("arith", op, ty) : op \in OverloadedOps, ty \in OperandTys}

InitOverload == InitOn(SeqsUpTo(OverloadCatalogue, MaxOverloadDecs))

SpecOverload == InitOverload /\ [][Next]_vars

\* the operand types an operator is to accept
AcceptedTys(op) ==
  CASE op \in {"+", "-"} -> {"int", "word", "real"}
    [] op \in {"div", "mod", "*"} -> {"int", "word"}
    [] op = "/" -> {"real"}
    [] op \in {"<", ">", "<=", ">="} -> {"int", "word", "real", "string", "char"}

Accepted(desc) == desc.b \in AcceptedTys(desc.a)

\* C5: an infix application of an overloaded operator of the basis to two
\* operands of one base type is accepted iff the type is a candidate of the
\* operator (the result is bool for a comparison, the operand type otherwise);
\* for any other operand type get fails with NoSuitableOverload, at the
\* application.
C5_OverloadCandidates ==
  pc = "done" /\ top_decs # <<>> =>
    LET rejected == {i \in 1..Len(top_decs) : ~Accepted(top_decs[i])}
        last == top_decs[Len(top_decs)]
    IN IF rejected = {}
       THEN /\ result.tag = "Ok"
            /\ bs.env.val_env["v"].ty_scheme.ty
                 = IF last.a \in {"<", ">", "<=", ">="} THEN TyBase("bool")
                   ELSE TyBase(last.b)
       ELSE /\ result.tag = "Err"
            /\ result.err.kind = "NoSuitableOverload"
            /\ result.err.loc = Min(rejected) * LocStride + 3

\* `word * word` was accepted
C5_Witness ==
  /\ pc = "done"
  /\ top_decs = <<Desc("arith", "*", "word")>>
  /\ result.tag = "Ok"

(* ------------------------------------------------------------------------ *)
(* The unifier on its own: sequences of unify calls on one substitution,     *)
(* starting from the empty one                                               *)
(* ------------------------------------------------------------------------ *)

TvA == TyVar(0, FALSE)
TvB == TyVar(1, FALSE)
TvC == TyVar(2, TRUE)

\* the operands of the calls
TyPool ==
  << Var(TvA), Var(TvB), Var(TvC), TyBase("int"),
     Arrow(Var(TvA), Var(TvB)), Arrow(Var(TvB), TyBase("int")),
     TyList(Var(TvA)),
     Pair(Var(TvA), Var(TvB)), Pair(Var(TvB), TyBase("int")),
     Record(<<Row(LabVid("x"), Var(TvC))>>) >>

InitUnify ==
  /\ top_decs = <<>>
  /\ hash_rev \in BOOLEAN
  /\ next_dec = 0
  /\ bs = std_lib.bs
  /\ st = StateDefault
  /\ pc = "unify"
  /\ result = NoResult

\* unify(&mut st.subst, loc, lhs, rhs)?, as the walk calls it: a failure ends
\* the walk
UnifyInPlace ==
  /\ pc = "unify"
  /\ next_dec < MaxUnify
  /\ \E i, j \in 1..Len(TyPool) :
       LET u == unify(st.subst, 0, TyPool[i], TyPool[j])
       IN /\ st' = [st EXCEPT !.subst = u.subst]
          /\ result' = IF u.tag = "Ok" THEN [tag |-> "Ok"] ELSE Fail(u)
          /\ pc' = IF u.tag = "Ok" THEN "unify" ELSE "failed"
  /\ next_dec' = next_dec + 1
  /\ UNCHANGED <<top_decs, bs, hash_rev>>

\* unify on a clone of the substitution, as solve calls it: the clone is
\* adopted on success and dropped on failure
UnifyOnClone ==
  /\ pc = "unify"
  /\ next_dec < MaxUnify
  /\ \E i, j \in 1..Len(TyPool) :
       LET u == unify(st.subst, 0, TyPool[i], TyPool[j])
       IN /\ st' = IF u.tag = "Ok" THEN [st EXCEPT !.subst = u.subst] ELSE st
          /\ result' = IF u.tag = "Ok" THEN [tag |-> "Ok"] ELSE Fail(u)
  /\ next_dec' = next_dec + 1
  /\ UNCHANGED <<top_decs, bs, pc, hash_rev>>

NextUnify == UnifyInPlace \/ UnifyOnClone

SpecUnify == InitUnify /\ [][NextUnify]_vars

\* C6: the substitution is idempotent: no variable of its domain occurs in a
\* type of its range, and applying it to a type of its range changes nothing.
C6_Idempotent ==
  \A tv \in DOMAIN st.subst :
    /\ ty_free_ty_vars(st.subst[tv]) \cap DOMAIN st.subst = {}
    /\ ty_apply(st.subst[tv], st.subst) = st.subst[tv]

\* a binding made by one call was rewritten by the binding of a later call
C6_Witness ==
  /\ pc = "unify"
  /\ TvA \in DOMAIN st.subst
  /\ TvB \in DOMAIN st.subst
  /\ st.subst[TvA] = Arrow(TyBase("int"), TyBase("int"))

\* the variable the pattern x of `val w = fn x => x x` gets: the fourth fresh
\* one, after that of the pattern w and the two of ck_cases
SelfAppParam == TyVar(std_lib.st.next_ty_var + 3, FALSE)

\* C7: no binding of a variable to a type it is free in is in the
\* substitution; unifying an unbound variable with another type that contains
\* it fails with Circularity(variable, type) and leaves the substitution as it
\* was; `fn x => x x` is rejected with Circularity on the variable of x.
C7_OccursCheck ==
  /\ \A tv \in DOMAIN st.subst : tv \notin ty_free_ty_vars(st.subst[tv])
  /\ \A i, j \in 1..Len(TyPool) :
       LET l == ty_apply(TyPool[i], st.subst)
           r == ty_apply(TyPool[j], st.subst)
           circular(v, t) == v.k = "Var" /\ t # v /\ v.tv \in ty_free_ty_vars(t)
       IN /\ circular(l, r) =>
               unify(st.subst, 0, TyPool[i], TyPool[j])
                 = UErr(st.subst, StaticsError(0, "Circularity", <<l.tv, r>>))
          /\ l.k # "Var" /\ circular(r, l) =>
               unify(st.subst, 0, TyPool[i], TyPool[j])
                 = UErr(st.subst, StaticsError(0, "Circularity", <<r.tv, l>>))
  /\ LET g == get(Program(<<Desc("val_selfapp", "", "")>>))
     IN /\ g.tag = "Err"
        /\ g.err.kind = "Circularity"
        /\ g.err.args[1] = SelfAppParam

\* a call failed with Circularity after an earlier call had bound a variable
C7_Witness ==
  /\ pc = "failed"
  /\ result.err.kind = "Circularity"
  /\ DOMAIN st.subst # {}
  /\ result.err.args[1] \notin DOMAIN st.subst

(* ------------------------------------------------------------------------ *)
(* ck_pat on its own: the pattern of a binding, checked in the context the   *)
(* declarations before it have built                                         *)
(* ------------------------------------------------------------------------ *)

MaxPatDecs == 2

\* the declarations before the pattern
PatCatalogue ==
  { Desc("val_lit", "x", "int"), Desc("datatype", "t", "A"), Desc("val_forbidden", "", "") }

\* the patterns: the identifier `a`, the application `a z`, or `a as z`
PatPool ==
  { Desc("vid", n, "") : n \in {"true", "nil", "Match", "A", "x", "p", "+", "fresh"} }
    \cup { Desc("ctor", n, "") : n \in {"x", "p", "+", "=", "A", "ref", "Bind", "fresh"} }
    \cup { Desc("as", n, "") : n \in {"true", "Match", "A", "x", "p", "+", "fresh"} }

PatOf(desc, base) ==
  CASE desc.d = "vid" -> PVid(desc.a, base + 2)
    [] desc.d = "ctor" -> PCtor(Vid(desc.a, base + 3), PVid("z", base + 4), base + 2)
    [] desc.d = "as" -> PAs(Located(desc.a, base + 3), <<>>, PVid("z", base + 4), base + 2)

\* the context and the state ck_pat gets: those of the pattern of a top-level
\* `val`, or, when `inner`, those of the pattern of the inner function of
\* `val _ = fn p => fn <pat> => ...`: ck_cases makes two variables, checks
\* the pattern p, extends the context with what p binds, and ck_cases of the
\* inner function makes two more variables
PatCx(b, s, inner, base) ==
  With(Cx(b.ty_names, {}, b.env), LAMBDA cx :
  IF ~inner THEN [cx |-> cx, st |-> s]
     ELSE With(new_ty_var(s, FALSE), LAMBDA a1 :
              With(new_ty_var(a1.st, FALSE), LAMBDA r1 :
              With(ck_pat(cx, r1.st, PVid("p", base + 1)), LAMBDA p :
              With(new_ty_var(p.st, FALSE), LAMBDA a2 :
              With(new_ty_var(a2.st, FALSE), LAMBDA r2 :
          [cx |-> [cx EXCEPT !.env.val_env = MapExtend(cx.env.val_env, p.val_env)],
              st |-> r2.st]))))))

InitPat == InitOn(SeqsUpTo(PatCatalogue, MaxPatDecs))

\* ck_pat(cx, st, pat) on the pattern that follows the declarations checked
\* so far
CkPat ==
  /\ pc = "walk"
  /\ next_dec > Len(top_decs)
  /\ \E desc \in PatPool, inner \in BOOLEAN :
       LET base == next_dec * LocStride
           c == PatCx(bs, st, inner, base)
           r == ck_pat(c.cx, c.st, PatOf(desc, base))
       IN /\ result' = [tag |-> "Pat", pat |-> desc, inner |-> inner,
                        cx |-> c.cx, st |-> c.st, out |-> r]
          /\ st' = IF r.tag = "Ok" THEN r.st ELSE c.st
  /\ pc' = "pat"
  /\ UNCHANGED <<top_decs, next_dec, bs, hash_rev>>

\* the walk over the declarations before the pattern
CkTopDecBefore ==
  /\ next_dec <= Len(top_decs)
  /\ CkTopDec

NextPat == CkTopDecBefore \/ CkPat

SpecPat == InitPat /\ [][NextPat]_vars

\* C9: an identifier pattern whose name the context binds with Ctor or Exn
\* status has the instance of that binding's scheme as its type and binds
\* nothing; any other identifier pattern has a fresh variable as its type and
\* binds exactly its name.
C9_CtorIdentifierBindsNothing ==
  pc = "pat" /\ result.pat.d = "vid" =>
    LET name == result.pat.a
        val_env == result.cx.env.val_env
        out == result.out
    IN /\ out.tag = "Ok"
       /\ IF name \in DOMAIN val_env /\ val_env[name].id_status \in {"Ctor", "Exn"}
          THEN /\ out.val_env = EmptyMap
               /\ out.ty = instantiate(result.st, val_env[name].ty_scheme,
                                       next_dec * LocStride + 2).ty
          ELSE /\ DOMAIN out.val_env = {name}
               /\ out.ty = Var(TyVar(result.st.next_ty_var, FALSE))

\* the names of the basis that std_lib binds with ValInfo::val
BasisValues ==
  {"+", "-", "*", "/", "div", "mod", "abs", "~", "<", ">", "<=", ">=", "=", ":="}

\* the names of the basis that are constructors of a datatype or exceptions
BasisCtors ==
  {"true", "false", "nil", "::", "ref", "LESS", "EQUAL", "GREATER", "Match", "Bind"}

\* the names the checked declarations have bound with `val`
DeclaredValues ==
  {top_decs[i].a : i \in {k \in 1..(next_dec - 1) : top_decs[k].d = "val_lit"}}

\* the constructors the checked declarations have bound with `datatype`
DeclaredCtors ==
  {top_decs[i].b : i \in {k \in 1..(next_dec - 1) : top_decs[k].d = "datatype"}}

\* C10: an application pattern whose head is bound as an ordinary value (by a
\* val declaration, by a pattern variable or by the basis) fails with
\* ValAsPat, and an application pattern is accepted only when its
\* head is a constructor.
C10_ValueHeadIsValAsPat ==
  pc = "pat" /\ result.pat.d = "ctor" =>
    LET head == result.pat.a
        out == result.out
        values == BasisValues \cup DeclaredValues \cup (IF result.inner THEN {"p"} ELSE {})
        ctors == BasisCtors \cup DeclaredCtors
    IN /\ head \in values =>
            /\ out.tag = "Err"
            /\ out.err.kind = "ValAsPat"
       /\ out.tag = "Ok" => head \in ctors

\* C11: an as-pattern `x as p` fails with NonVarInAs(x) iff x is bound as a
\* constructor or an exception; when x is unbound or bound as an ordinary
\* value (by a val declaration, by a pattern variable or by the basis), the
\* pattern is accepted and binds x to the type of p.
C11_NonVarInAsIffCtor ==
  pc = "pat" /\ result.pat.d = "as" =>
    LET x == result.pat.a
        out == result.out
        ctors == BasisCtors \cup DeclaredCtors
    IN IF x \in ctors
       THEN /\ out.tag = "Err"
            /\ out.err.kind = "NonVarInAs"
            /\ out.err.args = <<x>>
       ELSE /\ out.tag = "Ok"
            /\ x \in DOMAIN out.val_env
            /\ out.val_env[x].ty_scheme = TySchemeMono(out.ty)

(* ------------------------------------------------------------------------ *)
(* get on declarations with type annotations, datatype groups and sequences  *)
(* ------------------------------------------------------------------------ *)

MaxDecDecs == 2

DecCatalogue ==
  { Desc("val_lit", "x", "int"), Desc("arith", "+", "string"),
    Desc("val_typed", "bool", "int"), Desc("val_typed", "int", "bool"),
    Desc("val_typed", "int", "int"), Desc("val_typed", "string", "real"),
    Desc("val_anno", "list1", ""), Desc("val_anno", "list0", ""),
    Desc("val_anno", "list2", ""), Desc("val_anno", "int1", ""),
    Desc("val_anno", "list_list", ""),
    Desc("seq", "string", "real"), Desc("let_seq", "string", "real"),
    Desc("seq_dat", "", ""),
    Desc("dat_group", "int", "t"), Desc("dat_group", "u", "int"),
    Desc("dat_group", "u", "t"), Desc("dat_group", "t", "u") }

InitDec == InitOn(SeqsUpTo(DecCatalogue, MaxDecDecs))

SpecDec == InitDec /\ [][Next]_vars

\* the walk failed at declaration i
WalkFailedAt(i) == pc = "done" /\ next_dec = i /\ result.tag # "Ok"

\* the walk has just passed declaration i
JustWalked(i) == pc = "walk" /\ next_dec = i + 1

\* the type the name `n` denotes once the group `datatype t ... and u ...` is
\* in the basis
GroupTy(n) == bs.env.ty_env[n].ty_fcn.ty

\* C12: every datatype name of a group is installed before any constructor's
\* argument type is elaborated: a constructor of `datatype t = T1 of a and
\* u = U1 of b` may name t or u, earlier or later in the group, and its type
\* is a -> t (b -> u) with the symbols generated for the group.
C12_GroupNamesInstalledFirst ==
  \A i \in 1..Len(top_decs) :
    top_decs[i].d = "dat_group" =>
      /\ ~(WalkFailedAt(i) /\ result.err.kind = "Undefined")
      /\ JustWalked(i) =>
           /\ bs.env.val_env["T1"].ty_scheme.ty = Arrow(GroupTy(top_decs[i].a), GroupTy("t"))
           /\ bs.env.val_env["U1"].ty_scheme.ty = Arrow(GroupTy(top_decs[i].b), GroupTy("u"))

\* `val b : T = e` where T and the type of e are distinct base types
TypedMismatchAt(i) ==
  /\ i \in 1..Len(top_decs)
  /\ top_decs[i].d = "val_typed"
  /\ top_decs[i].a # top_decs[i].b

\* C13 as stated: `val x : T = e` with distinct nullary constructor types
\* fails with HeadMismatch(type of e, T), the expression's type first
\* (`val b : bool = 3` gives HeadMismatch(int, bool)).
C13_ExpTypeFirst ==
  \A i \in 1..Len(top_decs) :
    TypedMismatchAt(i) /\ WalkFailedAt(i) =>
      /\ result.tag = "Err"
      /\ result.err.kind = "HeadMismatch"
      /\ result.err.args = <<TyBase(top_decs[i].b), TyBase(top_decs[i].a)>>

\* C13 amended: `val x : T = e` with distinct nullary constructor types fails,
\* at the location of the declaration, with HeadMismatch(T, type of e): the
\* annotated type first, the expression's type second.
C13_AnnotatedTypeFirst ==
  \A i \in 1..Len(top_decs) :
    TypedMismatchAt(i) =>
      /\ ~JustWalked(i)
      /\ WalkFailedAt(i) =>
           /\ result.tag = "Err"
           /\ result.err.loc = i * LocStride + 1
           /\ result.err.kind = "HeadMismatch"
           /\ result.err.args = <<TyBase(top_decs[i].a), TyBase(top_decs[i].b)>>

C13_Witness ==
  /\ TypedMismatchAt(1)
  /\ top_decs[1] = Desc("val_typed", "bool", "int")
  /\ WalkFailedAt(1)
  /\ result.err.kind = "HeadMismatch"

(* ------------------------------------------------------------------------ *)
(* get run twice on the same input                                           *)
(* ------------------------------------------------------------------------ *)

MaxTwiceDecs == 2

TwiceCatalogue ==
  { Desc("val_lit", "x", "int"), Desc("val_id", "", ""), Desc("let_escape", "", ""),
    Desc("arith", "+", "int"), Desc("arith", "+", "string"),
    Desc("arith_mixed", "int", "string"), Desc("arith_mixed", "real", "int") }

InitTwice == InitOn(SeqsUpTo(TwiceCatalogue, MaxTwiceDecs))

\* a later run of the program: its hash-based collections iterate in an
\* order of their own
Rehash ==
  /\ pc = "done"
  /\ hash_rev' \in BOOLEAN
  /\ pc' = "again"
  /\ UNCHANGED <<top_decs, next_dec, bs, st, result>>

\* the call of get on the same input in that run
GetAgain ==
  /\ pc = "again"
  /\ result' = [tag |-> "Twice", first |-> result, second |-> get(Program(top_decs))]
  /\ pc' = "twice"
  /\ UNCHANGED <<top_decs, next_dec, bs, st, hash_rev>>

NextTwice == Next \/ Rehash \/ GetAgain

SpecTwice == InitTwice /\ [][NextTwice]_vars

\* C14: two runs of get on the same input end both in Ok or both in Err,
\* whatever the iteration order of the hash-based maps and sets of each run.
C14_SameOutcome ==
  pc = "twice" => result.first.tag = result.second.tag

\* two runs that differ in what they report and still agree on Err
C14_Witness ==
  /\ pc = "twice"
  /\ result.first.tag = "Err"
  /\ result.second.tag = "Err"
  /\ result.first.err # result.second.err

(* ------------------------------------------------------------------------ *)
(* Symmetry of unify                                                         *)
(* ------------------------------------------------------------------------ *)

\* the types of TyPool under the substitution s
PoolUnder(s) == [k \in 1..Len(TyPool) |-> ty_apply(TyPool[k], s)]

\* s1 and s2 equate the same pairs of types of TyPool
SameEquations(s1, s2) ==
  With(PoolUnder(s1), LAMBDA im1 :
  With(PoolUnder(s2), LAMBDA im2 :
  \A k \in 1..Len(TyPool) : \A l \in k..Len(TyPool) :
    (im1[k] = im1[l]) <=> (im2[k] = im2[l])))

RowLabels(rows) == {rows[k].lab : k \in 1..Len(rows)}

\* the types of the rows of rows_l unify with the types rows_r has at the same
\* labels, one label after the other in the order of rows_l
RECURSIVE RowsUnify(_, _, _)
RowsUnify(subst, rows_l, rows_r) ==
  IF rows_l = <<>> THEN TRUE
  ELSE With(unify(subst, 0, Head(rows_l).ty, RowsGet(rows_r, Head(rows_l).lab)), LAMBDA u :
       u.tag = "Ok" /\ RowsUnify(u.subst, Tail(rows_l), rows_r))

\* C15: under the (idempotent) substitution of the state, unify(t1, t2)
\* succeeds iff unify(t2, t1) succeeds, and then the two resulting
\* substitutions equate the same pairs of types; two record types unify iff
\* their label sets are equal and the types at each label unify.
C15_UnifySymmetric ==
  \A i \in 1..Len(TyPool) : \A j \in i..Len(TyPool) :
    LET u1 == unify(st.subst, 0, TyPool[i], TyPool[j])
        u2 == unify(st.subst, 0, TyPool[j], TyPool[i])
        l == ty_apply(TyPool[i], st.subst)
        r == ty_apply(TyPool[j], st.subst)
    IN /\ (u1.tag = "Ok") <=> (u2.tag = "Ok")
       /\ u1.tag = "Ok" => SameEquations(u1.subst, u2.subst)
       /\ l.k = "Record" /\ r.k = "Record" =>
            /\ (u1.tag = "Ok") <=>
                 (RowLabels(l.rows) = RowLabels(r.rows) /\ RowsUnify(st.subst, l.rows, r.rows))
            /\ (u2.tag = "Ok") <=>
                 (RowLabels(r.rows) = RowLabels(l.rows) /\ RowsUnify(st.subst, r.rows, l.rows))

\* after an earlier call bound a variable, the two orders of the operands give
\* different substitutions, and two records with the same labels unify
C15_Witness ==
  /\ pc = "unify"
  /\ st.subst # EmptySubst
  /\ unify(st.subst, 0, Var(TvA), Var(TvB)).tag = "Ok"
  /\ unify(st.subst, 0, Var(TvA), Var(TvB)).subst # unify(st.subst, 0, Var(TvB), Var(TvA)).subst
  /\ unify(st.subst, 0, Pair(Var(TvA), Var(TvB)), Pair(Var(TvB), TyBase("int"))).tag = "Ok"

(* ------------------------------------------------------------------------ *)
(* Arity of type constructors                                                *)
(* ------------------------------------------------------------------------ *)

\* the constructor applications occurring in a type
RECURSIVE CtorsOf(_)
CtorsOf(ty) ==
  CASE ty.k = "Var" -> {}
    [] ty.k = "Record" -> UNION {CtorsOf(ty.rows[k].ty) : k \in 1..Len(ty.rows)}
    [] ty.k = "Arrow" -> CtorsOf(ty.arg) \cup CtorsOf(ty.res)
    [] ty.k = "Ctor" -> {ty} \cup UNION {CtorsOf(ty.args[k]) : k \in 1..Len(ty.args)}

\* the number of parameters of the type function of the TyInfo that carries
\* the symbol; a datatype generated inside a let has none
Arity(sym) ==
  With({n \in DOMAIN bs.env.ty_env :
          /\ bs.env.ty_env[n].ty_fcn.ty.k = "Ctor"
          /\ bs.env.ty_env[n].ty_fcn.ty.sym = sym}, LAMBDA names :
  IF names = {} THEN 0
  ELSE Len(bs.env.ty_env[CHOOSE n \in names : TRUE].ty_fcn.ty_vars))

\* the types held by the basis, the substitution, the obligations and a
\* HeadMismatch error
TypesInState ==
  {bs.env.val_env[x].ty_scheme.ty : x \in DOMAIN bs.env.val_env}
    \cup {bs.env.ty_env[n].ty_fcn.ty : n \in DOMAIN bs.env.ty_env}
    \cup {st.subst[tv] : tv \in DOMAIN st.subst}
    \cup {st.ty_name[k].ty : k \in 1..Len(st.ty_name)}
    \cup (IF result.tag = "Err" /\ result.err.kind = "HeadMismatch"
          THEN {result.err.args[1], result.err.args[2]} ELSE {})

\* the numbers of parameters and of arguments of an annotation that applies a
\* constructor to the wrong number of arguments
WrongArgs(code) ==
  CASE code = "list0" -> <<1, 0>>
    [] code = "list2" -> <<1, 2>>
    [] code = "int1" -> <<0, 1>>

\* C16: every constructor application built during a check has as many
\* arguments as its symbol has parameters, the `mismatched Ctor args len`
\* assertion of unify never fails, and a type expression applying a
\* constructor to the wrong number of arguments is rejected with
\* WrongNumTyArgs(expected, found) at the type expression.
C16_Arity ==
  /\ \A ty \in TypesInState : \A c \in CtorsOf(ty) : Len(c.args) = Arity(c.sym)
  /\ result.tag = "Panic" => result.err.kind # "mismatched Ctor args len"
  /\ \A i \in 1..Len(top_decs) :
       top_decs[i].d = "val_anno" /\ top_decs[i].a \in {"list0", "list2", "int1"} =>
         /\ ~JustWalked(i)
         /\ WalkFailedAt(i) =>
              /\ result.tag = "Err"
              /\ result.err.loc = i * LocStride + 4
              /\ result.err.kind = "WrongNumTyArgs"
              /\ result.err.args = WrongArgs(top_decs[i].a)

\* `val l : int list list = nil` was accepted after `val l : (int, int) list`
\* would have been rejected: unify compared two applications of list
C16_Witness ==
  /\ Len(top_decs) = 2
  /\ top_decs[1] = Desc("val_anno", "list_list", "")
  /\ top_decs[2] = Desc("val_anno", "list2", "")
  /\ WalkFailedAt(2)
  /\ result.err.kind = "WrongNumTyArgs"
  /\ ty_apply(bs.env.val_env["l"].ty_scheme.ty, st.subst) = TyList(TyList(TyBase("int")))

(* ------------------------------------------------------------------------ *)
(* The Content-Length header of the language server                          *)
(*                                                                           *)
(* A byte is a one-character string; the variable bs holds the argument of   *)
(* content_length, and a usize is held as its decimal numeral without        *)
(* leading zeros.                                                            *)
(* ------------------------------------------------------------------------ *)

MaxSpaces == 2

AsciiDigits == <<"0", "1", "2", "3", "4", "5", "6", "7", "8", "9">>

is_ascii_digit(b) == \E k \in 1..Len(AsciiDigits) : AsciiDigits[k] = b

DigitValue(b) == (CHOOSE k \in 1..Len(AsciiDigits) : AsciiDigits[k] = b) - 1

\* b"Content-Length"
ContentLengthName == <<"C", "o", "n", "t", "e", "n", "t", "-", "L", "e", "n", "g", "t", "h">>

\* usize::MAX of a 64-bit target, 18446744073709551615
UsizeMax ==
  <<"1", "8", "4", "4", "6", "7", "4", "4", "0", "7", "3", "7", "0", "9", "5", "5", "1", "6",
    "1", "5">>

OptSome(n) == [tag |-> "Some", n |-> n]
OptNone == [tag |-> "None"]

RECURSIVE StripZeros(_)
StripZeros(ds) ==
  IF Len(ds) > 1 /\ Head(ds) = "0" THEN StripZeros(Tail(ds)) ELSE ds

\* numerals of the same length: a > b
RECURSIVE NumeralGreater(_, _)
NumeralGreater(a, b) ==
  IF a = <<>> THEN FALSE
  ELSE IF DigitValue(Head(a)) # DigitValue(Head(b))
  THEN DigitValue(Head(a)) > DigitValue(Head(b))
  ELSE NumeralGreater(Tail(a), Tail(b))

\* str::parse::<usize> on a non-empty string of digits: Err on overflow
parse_usize(ds) ==
  With(StripZeros(ds), LAMBDA n :
  IF Len(n) > Len(UsizeMax) \/ (Len(n) = Len(UsizeMax) /\ NumeralGreater(n, UsizeMax))
     THEN [tag |-> "Err"]
     ELSE [tag |-> "Ok", n |-> n])

\* `while *bs.get(i)? == b' ' { i += 1; }`: the index reached, or -1 for the
\* return of `?`
RECURSIVE skip_spaces(_, _)
skip_spaces(input, i) ==
  IF i >= Len(input) THEN -1
  ELSE IF input[i + 1] = " " THEN skip_spaces(input, i + 1) ELSE i

\* `while bs.get(i)?.is_ascii_digit() { i += 1; }`
RECURSIVE skip_digits(_, _)
skip_digits(input, i) ==
  IF i >= Len(input) THEN -1
  ELSE IF is_ascii_digit(input[i + 1]) THEN skip_digits(input, i + 1) ELSE i

content_length(input) ==
  IF ~\E k \in 1..Len(input) : input[k] = ":" THEN OptNone
  ELSE With((CHOOSE k \in 1..Len(input) :
               input[k] = ":" /\ \A m \in 1..(k - 1) : input[m] # ":") - 1, LAMBDA colon :
       IF SubSeq(input, 1, colon) # ContentLengthName THEN OptNone
       ELSE With(skip_spaces(input, colon + 1), LAMBDA start :
            IF start = -1 THEN OptNone
            ELSE With(skip_digits(input, start), LAMBDA i :
                 IF i = -1 THEN OptNone
                 ELSE IF \/ start = i
                         \/ input[i + 1] # "\r"
                         \/ i + 1 >= Len(input)
                         \/ input[i + 2] # "\n"
                         \/ i + 2 # Len(input)
                 THEN OptNone
                 ELSE With(parse_usize(SubSeq(input, start + 1, i)), LAMBDA parsed :
                      IF parsed.tag = "Err" THEN Panic(0, "unwrap") ELSE OptSome(parsed.n)))))

\* the pieces the arguments are put together from
HeaderNames ==
  { ContentLengthName, <<" ">> \o ContentLengthName, <<>>,
    <<"C", "o", "n", "t", "e", "n", "t", "-", "T", "y", "p", "e">> }

HeaderColons == { <<":">>, <<>>, <<":", ":">> }

HeaderSpaces == { [k \in 1..n |-> " "] : n \in 0..MaxSpaces }

HeaderNumbers ==
  { <<>>, <<"1", "2", "3">>, <<"0">>, <<"0", "0", "7">>, <<"1", "2", "a">>, <<"-", "1">>,
    UsizeMax, <<"0">> \o UsizeMax,
    <<"1", "8", "4", "4", "6", "7", "4", "4", "0", "7", "3", "7", "0", "9", "5", "5", "1", "6",
      "1", "6">>,
    <<"1">> \o [k \in 1..Len(UsizeMax) |-> "0"] }

HeaderEnds ==
  { <<"\r", "\n">>, <<"\n">>, <<"\r">>, <<>>, <<"\r", "\n", "\r", "\n">>,
    <<" ", "\r", "\n">>, <<"\r", "\n", " ", "1", "2", "3", "\r", "\n">> }

HeaderInputs ==
  { n \o c \o sp \o ds \o e :
      n \in HeaderNames, c \in HeaderColons, sp \in HeaderSpaces, ds \in HeaderNumbers,
      e \in HeaderEnds }

InitHeaders ==
  /\ bs \in HeaderInputs
  /\ top_decs = <<>>
  /\ hash_rev = FALSE
  /\ next_dec = 0
  /\ st = StateDefault
  /\ pc = "header"
  /\ result = NoResult

\* the call content_length(bs)
ContentLength ==
  /\ pc = "header"
  /\ result' = content_length(bs)
  /\ pc' = "parsed"
  /\ UNCHANGED <<top_decs, next_dec, bs, st, hash_rev>>

SpecHeaders == InitHeaders /\ [][ContentLength]_vars

\* what stands in bs between `Content-Length:` with k spaces and the last two
\* bytes
HeaderDigits(k) == SubSeq(bs, Len(ContentLengthName) + k + 2, Len(bs) - 2)

\* bs is `Content-Length:`, k spaces, one or more digits and `\r\n`
IsHeader(k) ==
  /\ HeaderDigits(k) # <<>>
  /\ \A m \in 1..Len(HeaderDigits(k)) : is_ascii_digit(HeaderDigits(k)[m])
  /\ bs = ContentLengthName \o <<":">> \o [m \in 1..k |-> " "] \o HeaderDigits(k)
            \o <<"\r", "\n">>

\* C17: content_length(bs) is Some(n) exactly when bs is `Content-Length:`,
\* zero or more spaces, one or more ASCII digits whose decimal value is n, and
\* `\r\n`, with nothing before or after; otherwise it is None.
C17_ContentLength ==
  pc = "parsed" =>
    IF \E k \in 0..Len(bs) : IsHeader(k)
    THEN \E k \in 0..Len(bs) : IsHeader(k) /\ result = OptSome(StripZeros(HeaderDigits(k)))
    ELSE result = OptNone

(* ------------------------------------------------------------------------ *)
(* The phases of get                                                         *)
(* ------------------------------------------------------------------------ *)

\* solve has started (and may have returned)
InSolve ==
  \/ pc \in {"solve", "apply"}
  \/ pc = "done" /\ result.tag = "Ok"
  \/ pc = "done" /\ result.tag = "Err"
       /\ result.err.kind \in {"NoSuitableOverload", "TyNameEscape"}

\* the scope-escape obligations have been examined
EscapesExamined ==
  \/ pc = "apply"
  \/ pc = "done" /\ result.tag \in {"Ok", "Panic"} /\ next_dec > Len(top_decs)
  \/ pc = "done" /\ result.tag = "Err" /\ result.err.kind = "TyNameEscape"

\* C18: solve runs only after every top-level declaration has been walked
\* without error; every overload obligation is processed before any
\* scope-escape obligation is examined, and the scope-escape obligations are
\* checked against the substitution that holds all overload resolutions; when
\* an overload failure and a scope escape are both present,
\* NoSuitableOverload is the error returned.
C18_PhaseOrdering ==
  LET w == get_walk(std_lib.bs, std_lib.st, Program(top_decs))
  IN /\ InSolve => next_dec = Len(top_decs) + 1 /\ w.tag = "Ok"
     /\ EscapesExamined =>
          /\ st.overload = <<>>
          /\ \A k \in 1..Len(w.st.overload) :
               LET ob == w.st.overload[k]
                   ty == ty_apply(Var(ob.tv), st.subst)
               IN ty.k = "Ctor" /\ \E n \in 1..Len(ob.overloads) : ty = TyBase(ob.overloads[n])
     /\ pc = "done" /\ w.tag = "Ok"
          /\ solve_overloads(w.st.subst, w.st.overload).tag # "Ok"
          /\ solve_ty_names(w.st.subst, w.st.ty_name).tag # "Ok"
        => result.tag = "Err" /\ result.err.kind = "NoSuitableOverload"

\* both failures are present and NoSuitableOverload was returned
C18_Witness ==
  /\ pc = "done"
  /\ top_decs = <<Desc("let_escape", "", ""), Desc("arith", "+", "string")>>
  /\ result.tag = "Err"
  /\ result.err.kind = "NoSuitableOverload"

\* an escape was reported after an overload obligation had been resolved
C18_EscapeAfterOverloads ==
  /\ pc = "done"
  /\ top_decs = <<Desc("arith", "+", "int"), Desc("let_escape", "", "")>>
  /\ result.tag = "Err"
  /\ result.err.kind = "TyNameEscape"
  /\ st.overload = <<>>
  /\ st.subst # EmptySubst

(* ------------------------------------------------------------------------ *)
(* Sequences of declarations                                                 *)
(* ------------------------------------------------------------------------ *)

\* the type the basis b gives the value `name`, under the substitution of s
ValTy(b, s, name) == ty_apply(b.env.val_env[name].ty_scheme.ty, s.subst)

\* the basis kept what it had for the names outside `names`, and has the
\* value names `names` in addition
OnlyValuesAdded(names) ==
  /\ DOMAIN bs'.env.val_env = DOMAIN bs.env.val_env \cup names
  /\ \A n \in DOMAIN bs.env.val_env \ names : bs'.env.val_env[n] = bs.env.val_env[n]

\* C19: in `val x = a; val y = x; val x = b` the second declaration sees the x
\* of the first, whatever x the enclosing context has, and the sequence gives
\* x the type of b and y the type of a; in `datatype s = S; val z = S` the
\* value sees the constructor (the datatype declaration itself is rejected
\* when the context has a type s already); inside a let the sequence leaves
\* the enclosing context as it was.
C19_SeqThreadsContext ==
  [][ pc = "walk" /\ next_dec <= Len(top_decs) =>
        LET d == top_decs[next_dec]
        IN /\ d.d \in {"seq", "let_seq"} => next_dec' = next_dec + 1
           /\ d.d = "seq_dat" /\ "s" \notin DOMAIN bs.env.ty_env => next_dec' = next_dec + 1
           /\ d.d = "seq" =>
                /\ ValTy(bs', st', "x") = TyBase(d.b)
                /\ ValTy(bs', st', "y") = TyBase(d.a)
                /\ OnlyValuesAdded({"x", "y"})
                /\ bs'.env.ty_env = bs.env.ty_env
           /\ d.d = "let_seq" =>
                /\ ValTy(bs', st', "r") = Pair(TyBase(d.b), TyBase(d.a))
                /\ OnlyValuesAdded({"r"})
                /\ bs'.env.ty_env = bs.env.ty_env
           /\ d.d = "seq_dat" /\ next_dec' = next_dec + 1 =>
                /\ ValTy(bs', st', "z") = bs'.env.ty_env["s"].ty_fcn.ty
                /\ bs'.env.val_env["S"].ty_scheme.ty = bs'.env.ty_env["s"].ty_fcn.ty
                /\ OnlyValuesAdded({"S", "z"})
                /\ DOMAIN bs'.env.ty_env = DOMAIN bs.env.ty_env \cup {"s"}
    ]_vars

\* the sequence was checked in a context that had an x of another type
C19_Witness ==
  /\ pc = "walk"
  /\ next_dec = 3
  /\ top_decs = <<Desc("val_lit", "x", "int"), Desc("seq", "string", "real")>>
  /\ ValTy(bs, st, "x") = TyBase("real")
  /\ ValTy(bs, st, "y") = TyBase("string")

\* C20: Subst::insert is called only with a variable that has no binding yet:
\* no call of unify on the substitution of the state, in place or on a clone,
\* ends in the failure of the assertion of insert.
C20_NoDoubleBinding ==
  /\ result.tag = "Panic" => result.err.kind # "Subst::insert"
  /\ pc = "unify" =>
       \A i, j \in 1..Len(TyPool) :
         LET u == unify(st.subst, 0, TyPool[i], TyPool[j])
         IN u.tag = "Panic" => u.err.kind # "Subst::insert"

\* a second variable was bound after an operand had been rewritten by the first
\* binding
C20_Witness ==
  /\ pc = "unify"
  /\ result.tag = "Ok"
  /\ TvA \in DOMAIN st.subst
  /\ TvB \in DOMAIN st.subst
  /\ st.subst[TvA] = TyBase("int")
  /\ st.subst[TvB] = TyBase("int")

\* ---------------------------------------------------------------------------
\* Completeness of overload resolution
\* ---------------------------------------------------------------------------

\* some choice of one candidate per obligation, taken in the order of the
\* obligations, unifies every obligation's variable with its candidate
RECURSIVE Satisfiable(_, _)
Satisfiable(subst, obs) ==
  IF obs = <<>> THEN TRUE
  ELSE \E n \in 1..Len(Head(obs).overloads) :
         With(unify(subst, Head(obs).loc, Var(Head(obs).tv),
                    TyBase(Head(obs).overloads[n])), LAMBDA u :
              u.tag = "Ok" /\ Satisfiable(u.subst, Tail(obs)))

\* the state at the end of the walk over the whole input
WalkEnd == get_walk(std_lib.bs, std_lib.st, Program(top_decs))

\* C21: when the obligations recorded by the walk can all be satisfied at once
\* under the substitution of the end of the walk, get does not fail with
\* NoSuitableOverload.
C21_OverloadComplete ==
  (pc = "done" /\ WalkEnd.tag = "Ok"
     /\ Satisfiable(WalkEnd.st.subst, WalkEnd.st.overload))
    => ~(result.tag = "Err" /\ result.err.kind = "NoSuitableOverload")

\* ---------------------------------------------------------------------------
\* get on let expressions and the declarations around them
\* ---------------------------------------------------------------------------

MaxLetDecs == 2

LetCatalogue ==
  { Desc("let_id", "", ""), Desc("app_k", "", "int"), Desc("seq_dat_app", "", ""),
    Desc("let_escape", "", ""), Desc("let_same", "", ""),
    Desc("let_seq", "string", "real"), Desc("datatype", "s", "S"),
    Desc("arith", "+", "int"), Desc("val_lit", "x", "int") }

InitLet == InitOn(SeqsUpTo(LetCatalogue, MaxLetDecs))

SpecLet == InitLet /\ [][Next]_vars

\* the let expressions of a declaration: the location of the last expression
\* of the body and the type names declared between `let` and `in`
LetsOf(desc, base) ==
  CASE desc.d = "let_escape" -> {[loc |-> base + 6, names |-> {"t"}]}
    [] desc.d = "let_leak" -> {[loc |-> base + 8, names |-> {"t"}]}
    [] desc.d = "let_same" -> {[loc |-> base + 7, names |-> {"t"}],
                               [loc |-> base + 11, names |-> {"t"}]}
    [] desc.d = "let_seq" -> {[loc |-> base + 14, names |-> {}]}
    [] desc.d = "let_id" -> {[loc |-> base + 9, names |-> {}]}
    [] OTHER -> {}

\* the type names of the body of the let at loc under the final substitution
FinalBodyNames(loc) ==
  UNION { ty_names(ty_apply(st.ty_name[n].ty, st.subst)) :
            n \in { m \in 1..Len(st.ty_name) : st.ty_name[m].loc = loc } }

\* C22: get fails with TyNameEscape only at a let whose body, under the final
\* substitution, has a type that mentions a type name declared inside that let.
C22_NoSpuriousEscape ==
  (pc = "done" /\ result.tag = "Err" /\ result.err.kind = "TyNameEscape")
    => \E i \in 1..Len(top_decs) :
         \E l \in LetsOf(top_decs[i], i * LocStride) :
           /\ l.loc = result.err.loc
           /\ FinalBodyNames(l.loc) \cap l.names # {}

\* ---------------------------------------------------------------------------
\* get on datatype declarations
\* ---------------------------------------------------------------------------

MaxDatDecs == 2

DatCatalogue ==
  { Desc("dat_and", "t", "u"), Desc("dat_and", "t", "t"), Desc("dat_and", "int", "t"),
    Desc("dat_and", "t", "list"), Desc("dat_and", "unit", "u"),
    Desc("dat_cons", "A", "B"), Desc("dat_cons", "A", "A"),
    Desc("dat_cons_and", "A", "B"), Desc("dat_cons_and", "A", "A"),
    Desc("let_dat", "t", ""), Desc("let_dat", "int", ""),
    Desc("type_alias", "t", "int"), Desc("arith", "+", "int") }

InitDat == InitOn(SeqsUpTo(DatCatalogue, MaxDatDecs))

SpecDat == InitDat /\ [][Next]_vars

\* the datatype bindings of a top-level declaration that are elaborated in the
\* context of the basis: those of a datatype declaration, or of the datatype
\* declaration of a let that is the right-hand side of a val
DatBindsOf(td) ==
  IF td.n # "Dec" THEN <<>>
  ELSE IF td.dec.n = "Datatype" THEN td.dec.dat_binds
  ELSE IF td.dec.n = "Val" /\ td.dec.val_binds[1].exp.n = "Let"
          /\ td.dec.val_binds[1].exp.dec.n = "Datatype"
  THEN td.dec.val_binds[1].exp.dec.dat_binds
  ELSE <<>>

\* the constructors of the bindings before binding k, and those of binding k
\* before its constructor m
ConsBefore(dbs, k, m) ==
  UNION { { dbs[j].cons[i].vid.val : i \in 1..Len(dbs[j].cons) } : j \in 1..(k - 1) }
    \cup { dbs[k].cons[i].vid.val : i \in 1..(m - 1) }

\* a constructor of binding k is rejected by ck_binding or by the
\* duplicate-checked insertion
ConsFail(dbs, k) ==
  \E m \in 1..Len(dbs[k].cons) :
    \/ dbs[k].cons[m].vid.val \in ForbiddenNames
    \/ dbs[k].cons[m].vid.val \in ConsBefore(dbs, k, m)

\* the name of binding k is bound in the type environment of the basis or by
\* an earlier binding of the group
TyConClash(dbs, k) ==
  dbs[k].ty_con.val \in DOMAIN bs.env.ty_env
                          \cup { dbs[j].ty_con.val : j \in 1..(k - 1) }

\* no binding before binding k fails
DatBindReached(dbs, k) ==
  \A j \in 1..(k - 1) : ~TyConClash(dbs, j) /\ ~ConsFail(dbs, j)

\* C23: a datatype binding fails with Redefined at its type constructor iff
\* its name is bound in the type environment of its context or by an earlier
\* binding of the group, and is installed otherwise; every type name of T is
\* a key of the type environment, and no datatype of a let has a name of the
\* T saved at that let.
C23_DatatypeRedefined ==
  [][(pc = "walk" /\ next_dec <= Len(top_decs)) =>
       LET td == Program(top_decs)[next_dec]
           dbs == DatBindsOf(td)
           RedefinedAt(k) ==
             /\ pc' = "done"
             /\ result'.tag = "Err"
             /\ result'.err.kind = "Redefined"
             /\ result'.err.loc = dbs[k].ty_con.loc
             /\ result'.err.args = <<dbs[k].ty_con.val>>
       IN /\ \A k \in 1..Len(dbs) :
               DatBindReached(dbs, k) => (RedefinedAt(k) <=> TyConClash(dbs, k))
          /\ (td.dec.n = "Datatype" /\ pc' = "walk") =>
               \A k \in 1..Len(dbs) :
                 /\ dbs[k].ty_con.val \in DOMAIN bs'.env.ty_env
                 /\ dbs[k].ty_con.val \in bs'.ty_names
                 /\ bs'.env.ty_env[dbs[k].ty_con.val].ty_fcn.ty.k = "Ctor"
                 /\ bs'.env.ty_env[dbs[k].ty_con.val].ty_fcn.ty.sym.name = dbs[k].ty_con.val
                 /\ bs'.env.ty_env[dbs[k].ty_con.val].ty_fcn.ty.sym.id.loc = dbs[k].ty_con.loc
          /\ bs.ty_names \subseteq DOMAIN bs.env.ty_env
          /\ bs'.ty_names \subseteq DOMAIN bs'.env.ty_env
          /\ \A n \in (Len(st.ty_name) + 1)..Len(st'.ty_name) :
               /\ st'.ty_name[n].ty_names \subseteq DOMAIN bs.env.ty_env
               /\ td.dec.n = "Val" =>
                    \A k \in 1..Len(dbs) : dbs[k].ty_con.val \notin st'.ty_name[n].ty_names
     ]_vars

\* the datatype of a let was rejected because a top-level datatype of the
\* same name was in scope
C23_Witness ==
  /\ pc = "done"
  /\ top_decs = <<Desc("dat_and", "t", "u"), Desc("let_dat", "t", "")>>
  /\ result = Err(204, "Redefined", <<"t">>)

\* ---------------------------------------------------------------------------
\* The error of get on a second run
\* ---------------------------------------------------------------------------

\* C24: when get fails, a second run over the same input, with any iteration
\* order of the hash sets and maps, fails with the same kind, the same payload
\* and the same location.
C24_SameErrorOnEveryRun ==
  (pc = "twice" /\ result.first.tag = "Err") =>
    /\ result.second.tag = "Err"
    /\ result.second.err.kind = result.first.err.kind
    /\ result.second.err.args = result.first.err.args
    /\ result.second.err.loc = result.first.err.loc

\* ---------------------------------------------------------------------------
\* Totality of content_length
\* ---------------------------------------------------------------------------

\* C25: content_length returns Some or None for every input and never panics,
\* also when the digits of a well-formed header denote a number above the
\* maximum of usize.
C25_ContentLengthTotal ==
  pc = "parsed" => result.tag \in {"Some", "None"}

\* ---------------------------------------------------------------------------
\* The unary operators of the basis
\* ---------------------------------------------------------------------------

MaxUnaryDecs == 2

UnaryOps == {"abs", "~"}

\* `val v = a <b>` for both operators and every operand type, and `1 + 1`
UnaryCatalogue ==
  {Desc("unary", op, ty) : op \in UnaryOps, ty \in OperandTys}
    \cup {Desc("arith", "+", "int")}

InitUnary == InitOn(SeqsUpTo(UnaryCatalogue, MaxUnaryDecs))

SpecUnary == InitUnary /\ [][Next]_vars

\* C26: `abs` and `~` applied to one argument of type int or real typecheck,
\* with the type of the argument as the type of the result; applied to an
\* argument of another base type they fail with NoSuitableOverload.
C26_UnaryOperators ==
  pc = "done" /\ top_decs # <<>> =>
    LET rejected == {i \in 1..Len(top_decs) :
                       top_decs[i].d = "unary" /\ top_decs[i].b \notin {"int", "real"}}
        last == top_decs[Len(top_decs)]
    IN IF rejected = {}
       THEN /\ result.tag = "Ok"
            /\ bs.env.val_env["v"].ty_scheme.ty = TyBase(last.b)
       ELSE /\ result.tag = "Err"
            /\ result.err.kind = "NoSuitableOverload"

\* ---------------------------------------------------------------------------
\* The sanity assertions of datatype elaboration
\* ---------------------------------------------------------------------------

\* the constructors of a datatype binding
ConsOf(db) == { db.cons[i].vid.val : i \in 1..Len(db.cons) }

\* C27: neither assertion of Dec::Datatype fails, and after a datatype
\* declaration has been elaborated the value environment of each of its
\* datatypes holds exactly the constructors of that datatype, each with the
\* type it has in the value environment of the declaration.
C27_DatatypeAssertions ==
  [][/\ result'.tag = "Panic" =>
          result'.err.kind \notin {"bind_val_env.insert", "ty_env.insert"}
     /\ (pc = "walk" /\ next_dec <= Len(top_decs) /\ pc' = "walk") =>
          LET td == Program(top_decs)[next_dec]
          IN td.dec.n = "Datatype" =>
               \A k \in 1..Len(td.dec.dat_binds) :
                 LET db == td.dec.dat_binds[k]
                     info == bs'.env.ty_env[db.ty_con.val]
                 IN /\ DOMAIN info.val_env = ConsOf(db)
                    /\ \A c \in ConsOf(db) :
                         /\ c \in DOMAIN bs'.env.val_env
                         /\ info.val_env[c] = bs'.env.val_env[c]
                         /\ info.val_env[c].id_status = "Ctor"
    ]_vars

\* a group of two datatypes was installed, each with its own constructor
C27_Witness ==
  /\ pc = "walk"
  /\ next_dec = 2
  /\ top_decs = <<Desc("dat_cons_and", "A", "B")>>
  /\ DOMAIN bs.env.ty_env["v"].val_env = {"A"}
  /\ DOMAIN bs.env.ty_env["w"].val_env = {"B"}
  /\ bs.env.ty_env["w"].val_env["B"] = bs.env.val_env["B"]

====
